---- MODULE Spec2Model ----
(***************************************************************************)
(* A model of src/sift_client.ts (class SiftClient): the request transport *)
(* with its retry loop, the cursor-following getDirectReports, and the     *)
(* breadth-first getOrgSubtree walk.                                       *)
(*                                                                         *)
(* The specifications of the module, one per component:                    *)
(*   SpecT  one logical call of requestJsonByUrl, attempt by attempt        *)
(*          (SpecTFair: every fetch settles, every backoff ends);           *)
(*   SpecS  two requestJsonByUrl calls in flight at the same time;          *)
(*   SpecP  one call of getDirectReports or of getPerson, logical request   *)
(*          by logical request (SpecL: the cursor loop against a server     *)
(*          free in its next references);                                   *)
(*   SpecW  one call of getOrgSubtree, expansion by expansion               *)
(*          (SpecWFair: every awaited search settles);                      *)
(*   SpecF  overlapping calls of getFields on one client;                   *)
(*   SpecC  calls of getOrgChain, superior fetch by superior fetch;         *)
(*   SpecA  the requests the client sends and the media URLs it builds.     *)
(* A layer sees the layer below through its three outcomes: a JSON body,   *)
(* an absent body (204), or a thrown error.                                *)
(***************************************************************************)
EXTENDS Integers, Sequences, FiniteSets, TLC

VARIABLES
  \* ---- requestJsonByUrl ----
  t_pc,        \* "idle" | "fetch" (awaiting this._fetch) | "backoff" (awaiting setTimeout) | "done"
  attempt,     \* let attempt
  aborted,     \* ac.signal.aborted
  timer,       \* TRUE while the setTimeout(() => ac.abort()) timer is armed
  lastErr,     \* let lastErr (NoErr for null)
  t_hist,      \* the fetch outcomes of this call, one per attempt
  t_waits,     \* the backoff delays awaited so far (ms)
  t_result,    \* "none" | "json" | "empty" | "error": how the call completed
  t_thrown,    \* the error the call threw (NoErr when it did not)
  t_req,       \* the arguments of the call: method, url, body
  t_sent,      \* what was handed to this._fetch, one record per attempt
  \* ---- getDirectReports ----
  p_pc,        \* "idle" | "first" | "loop" | "returned" | "failed"
  managerId,   \* the managerId argument
  size,        \* const size
  pageSizeArg, \* who called getDirectReports and the page size that was asked for
  out,         \* const out: T[]
  resp,        \* let resp (NoResp before the first page)
  requests,    \* the logical requests issued, in order
  pagesSeen,   \* the page bodies received, in order
  p_return,    \* the returned array
  \* ---- getOrgSubtree ----
  w_pc,        \* "idle" | "loop" | "returned" | "failed"
  opts,        \* the options after defaulting: includeManager, maxDepth, maxNodes
  rootKey,     \* managerIdOrEmail
  manager,     \* const manager (NoEntity for null)
  nodesMap,    \* Map<string, T> as the sequence of its values in insertion order
  edges,       \* const edges
  queue,       \* const queue
  apiCalls,    \* let apiCalls
  expanded,    \* let expanded
  depthReached,\* let depthReached
  truncated,   \* stats.truncated of the returned result
  server,      \* the remote directory the walk runs against
  w_log,       \* what the walk did, one record per loop iteration
  \* ---- getPerson ----
  g_pc,        \* "idle" | "await" | "returned" | "failed"
  g_key,       \* idOrEmail
  g_requests,  \* the requests getPerson handed to requestJson, in order
  g_return,    \* the returned value (NoValue for undefined)
  \* ---- getFields ----
  fieldsCache, \* this.fieldsCache (NoCache for null)
  fieldsTtlMs, \* this.fieldsTtlMs
  clock,       \* Date.now()
  f_calls,     \* the getFields calls made so far, one record per call
  \* ---- getOrgChain ----
  c_pc,        \* "idle" | "person" | "leaders" | "returned" | "failed"
  c_key,       \* idOrEmail
  includeSelf, \* includeSelf
  person,      \* const person
  unique,      \* const unique
  c_settled,   \* what each getPerson of the Promise.all has settled with so far
  c_order,     \* the superior fetches in the order they settled
  c_fetches,   \* the keys getPerson was called with, in order
  c_return,    \* the returned array
  c_prev,      \* the previous returned call: its includeSelf and its result
  c_remote,    \* the remote state the chain is resolved against
  \* ---- makeMediaUrl ----
  m_call,      \* the last makeMediaUrl call: its client, arguments and result
  \* ---- a second requestJsonByUrl call, concurrent with the first ----
  sib          \* its pc, attempt, ac.signal.aborted, timer, lastErr and outcome

tvars == <<t_pc, attempt, aborted, timer, lastErr, t_hist, t_waits, t_result, t_thrown,
           t_req, t_sent>>
pvars == <<p_pc, managerId, size, pageSizeArg, out, resp, requests, pagesSeen, p_return>>
wvars == <<w_pc, opts, rootKey, manager, nodesMap, edges, queue, apiCalls, expanded,
           depthReached, truncated, server, w_log>>
gvars == <<g_pc, g_key, g_requests, g_return>>
fvars == <<fieldsCache, fieldsTtlMs, clock, f_calls>>
cvars == <<c_pc, c_key, includeSelf, person, unique, c_settled, c_order, c_fetches,
           c_return, c_prev, c_remote>>
mvars == <<m_call>>
svars == <<sib>>
vars == <<tvars, pvars, wvars, gvars, fvars, cvars, mvars, svars>>

NoErr == [kind |-> "none"]
NoId == "<null>"
Absent == "<undefined>"

\* ------------------------------------------------------------------------
\* Small helpers
\* ------------------------------------------------------------------------
Max(a, b) == IF a >= b THEN a ELSE b
Min(a, b) == IF a <= b THEN a ELSE b
RECURSIVE Pow2(_)
Pow2(n) == IF n <= 0 THEN 1 ELSE 2 * Pow2(n - 1)

\* ------------------------------------------------------------------------
\* Transport: requestJsonByUrl
\* ------------------------------------------------------------------------
maxAttempts == 3

\* What one this._fetch call can do: settle with a response (a status, a
\* retry-after header value in ms with 0 for "absent or not a number", and
\* whether res.json() parses), or reject (a network failure, or the abort).
RetryAfterValues == {0, 2000}
Responses ==
  {[kind |-> "response", status |-> 200, retryAfter |-> 0, jsonOk |-> b] : b \in BOOLEAN}
  \cup {[kind |-> "response", status |-> s, retryAfter |-> 0, jsonOk |-> FALSE] : s \in {204, 404}}
  \cup {[kind |-> "response", status |-> s, retryAfter |-> h, jsonOk |-> FALSE] :
          s \in {429, 500, 503}, h \in RetryAfterValues}
Rejections == {[kind |-> "network"], [kind |-> "abort"]}
JitterValues == {0, 99}

ResOk(res) == res.status >= 200 /\ res.status <= 299

IsNoContentNever(res) == FALSE

\* if (res.status === 204)
IsNoContent(res) == res.status = 204

\* (res.status === 429 || res.status >= 500)
IsRetryStatus(res) == res.status = 429 \/ res.status >= 500

StatusRetryAllowedOffByOne(res, att) == IsRetryStatus(res) /\ att <= maxAttempts

\* ... && attempt < maxAttempts
StatusRetryAllowed(res, att) == IsRetryStatus(res) /\ att < maxAttempts

\* Number(res.headers.get('retry-after')) || Math.pow(2, attempt) * 250
RetryAfterDelay(res, att) == IF res.retryAfter # 0 THEN res.retryAfter ELSE Pow2(att) * 250

\* Math.pow(2, attempt) * 200 + Math.random() * 100
CatchDelay(att, jitter) == Pow2(att) * 200 + jitter

CatchGivesUpEarly(att) == att >= maxAttempts - 1

\* catch (err): if (attempt >= maxAttempts) { clearTimeout(timer); throw err; }
CatchGivesUp(att) == att >= maxAttempts

\* while (attempt < maxAttempts)
LoopContinues(att) == att < maxAttempts

\* The error thrown for a response that is not ok: it embeds status and body text.
StatusError(res) == [kind |-> "http", status |-> res.status, body |-> TRUE]
\* The rejection of this._fetch or of res.json(), rethrown as it is.
RejectError(o) == IF o.kind = "response" THEN [kind |-> "parse"] ELSE [kind |-> o.kind]

\* The credentials the client is constructed with: opts.dataToken, and
\* opts.mediaToken when it is given.
DataToken == "data-token"
MediaToken == "media-token"

HeadersMediaBearer(method) ==
  [Authorization |-> "Bearer " \o MediaToken, Accept |-> "application/json",
   ContentType |-> IF method = "POST" THEN "application/json" ELSE Absent]

\* Lines 139-147: const headers = { Authorization: `Bearer ${this.dataToken}`,
\* Accept: 'application/json' }, and Content-Type for a POST.
Headers(method) ==
  [Authorization |-> "Bearer " \o DataToken, Accept |-> "application/json",
   ContentType |-> IF method = "POST" THEN "application/json" ELSE Absent]

\* Line 157: this._fetch(url, { method, headers, body: payload, signal: ac.signal })
FetchInit(req) ==
  [url |-> req.url, method |-> req.method, headers |-> Headers(req.method),
   body |-> req.body]

\* Lines 143-147: payload stays undefined for a GET and is the JSON text of
\* the body for a POST; an optional value is a tuple of zero or one element.
NoBody == <<>>
JsonBody(body) == <<body>>

NoRequest == [method |-> "none", url |-> [base |-> "", path |-> ""], body |-> NoBody]

SharedController(flag) == TRUE

\* Line 136: const ac = new AbortController() is created by each call; the
\* ac.abort() of one call's timer leaves the signal of another call as it is.
OwnController(flag) == flag

\* A call that has not been made (the second call).  concurrent tells that
\* the call was awaiting its fetch when the timer of the first call fired.
NoCall ==
  [pc |-> "idle", attempt |-> 0, aborted |-> FALSE, timer |-> FALSE, lastErr |-> NoErr,
   result |-> "none", thrown |-> NoErr, concurrent |-> FALSE]
SInit == sib = NoCall

TInit ==
  /\ t_pc = "idle" /\ attempt = 0 /\ aborted = FALSE /\ timer = FALSE
  /\ lastErr = NoErr /\ t_hist = <<>> /\ t_waits = <<>>
  /\ t_result = "none" /\ t_thrown = NoErr
  /\ t_req = NoRequest /\ t_sent = <<>>

\* Lines 136-155: the controller and timer are created, the loop is entered.
TCall(req) ==
  /\ t_pc = "idle"
  /\ t_req' = req
  /\ t_sent' = IF LoopContinues(0) THEN <<FetchInit(req)>> ELSE <<>>
  /\ timer' = TRUE
  /\ aborted' = FALSE
  /\ attempt' = 1
  /\ t_pc' = IF LoopContinues(0) THEN "fetch" ELSE "done"
  /\ t_result' = IF LoopContinues(0) THEN "none" ELSE "error"
  /\ t_thrown' = IF LoopContinues(0) THEN NoErr ELSE [kind |-> "unknown"]
  /\ UNCHANGED <<lastErr, t_hist, t_waits>>
  /\ UNCHANGED <<pvars, wvars, gvars, fvars, cvars, mvars, svars>>

\* The catch block (lines 174-182) entered with error e.
TCatch(e, jitter) ==
  /\ lastErr' = e
  /\ IF CatchGivesUp(attempt)
       THEN /\ timer' = FALSE
            /\ t_pc' = "done" /\ t_result' = "error" /\ t_thrown' = e
            /\ UNCHANGED t_waits
       ELSE /\ t_pc' = "backoff"
            /\ t_waits' = Append(t_waits, CatchDelay(attempt, jitter))
            /\ UNCHANGED <<timer, t_result, t_thrown>>

SignalDetached == FALSE

\* Line 157: signal: ac.signal, the controller the timer of line 137 aborts.
SignalAborted == aborted

\* Lines 157-173: the awaited fetch settles with outcome o.  A fetch whose
\* signal is aborted rejects with the abort error, and no other fetch does.
TFetch(o, jitter) ==
  /\ t_pc = "fetch"
  /\ SignalAborted => o.kind = "abort"
  /\ o.kind = "abort" => SignalAborted
  /\ t_hist' = Append(t_hist, o)
  /\ UNCHANGED <<attempt, aborted, t_req, t_sent>>
  /\ UNCHANGED <<pvars, wvars, gvars, fvars, cvars, mvars, svars>>
  /\ IF o.kind # "response" THEN TCatch(RejectError(o), jitter)
     ELSE IF IsNoContent(o)
       THEN /\ timer' = FALSE
            /\ t_pc' = "done" /\ t_result' = "empty"
            /\ UNCHANGED <<lastErr, t_waits, t_thrown>>
     ELSE IF ~ResOk(o)
       THEN IF StatusRetryAllowed(o, attempt)
              THEN /\ t_pc' = "backoff"
                   /\ t_waits' = Append(t_waits, RetryAfterDelay(o, attempt))
                   /\ UNCHANGED <<timer, lastErr, t_result, t_thrown>>
              ELSE TCatch(StatusError(o), jitter)
     ELSE IF o.jsonOk
       THEN /\ timer' = FALSE
            /\ t_pc' = "done" /\ t_result' = "json"
            /\ UNCHANGED <<lastErr, t_waits, t_thrown>>
     ELSE TCatch(RejectError(o), jitter)

\* The backoff setTimeout resolves and the while condition is evaluated again
\* (lines 154-155, and 185-186 when the loop is left).
TWake ==
  /\ t_pc = "backoff"
  /\ IF LoopContinues(attempt)
       THEN /\ attempt' = attempt + 1
            /\ t_pc' = "fetch"
            /\ t_sent' = Append(t_sent, FetchInit(t_req))
            /\ UNCHANGED <<timer, t_result, t_thrown>>
       ELSE /\ timer' = FALSE
            /\ t_pc' = "done" /\ t_result' = "error"
            /\ t_thrown' = IF lastErr = NoErr THEN [kind |-> "unknown"] ELSE lastErr
            /\ UNCHANGED <<attempt, t_sent>>
  /\ UNCHANGED <<aborted, lastErr, t_hist, t_waits, t_req>>
  /\ UNCHANGED <<pvars, wvars, gvars, fvars, cvars, mvars, svars>>

\* Line 137: the timeout timer fires while it is armed: ac.abort().
TTimeout ==
  /\ timer /\ ~aborted
  /\ t_pc \in {"fetch", "backoff"}
  /\ aborted' = TRUE
  /\ sib' = [sib EXCEPT !.aborted = OwnController(sib.aborted),
                        !.concurrent = (sib.pc = "fetch")]
  /\ UNCHANGED <<t_pc, attempt, timer, lastErr, t_hist, t_waits, t_result, t_thrown,
                 t_req, t_sent>>
  /\ UNCHANGED <<pvars, wvars, gvars, fvars, cvars, mvars>>

\* ---- the second call: the same lines, on the record sib ----
\* Lines 136-155.
SCall ==
  /\ sib.pc = "idle"
  /\ sib' = [sib EXCEPT !.pc = "fetch", !.attempt = 1, !.timer = TRUE, !.aborted = FALSE]
  /\ UNCHANGED <<tvars, pvars, wvars, gvars, fvars, cvars, mvars>>

\* The catch block (lines 174-182) entered with error e.
SCatch(c, e) ==
  IF CatchGivesUp(c.attempt)
    THEN [c EXCEPT !.lastErr = e, !.timer = FALSE, !.pc = "done", !.result = "error",
                   !.thrown = e]
    ELSE [c EXCEPT !.lastErr = e, !.pc = "backoff"]

\* Lines 157-173.
SFetch(o) ==
  /\ sib.pc = "fetch"
  /\ sib.aborted => o.kind = "abort"
  /\ o.kind = "abort" => sib.aborted
  /\ sib' = IF o.kind # "response" THEN SCatch(sib, RejectError(o))
            ELSE IF IsNoContent(o)
              THEN [sib EXCEPT !.timer = FALSE, !.pc = "done", !.result = "empty"]
            ELSE IF ~ResOk(o)
              THEN IF StatusRetryAllowed(o, sib.attempt)
                     THEN [sib EXCEPT !.pc = "backoff"]
                     ELSE SCatch(sib, StatusError(o))
            ELSE IF o.jsonOk
              THEN [sib EXCEPT !.timer = FALSE, !.pc = "done", !.result = "json"]
            ELSE SCatch(sib, RejectError(o))
  /\ UNCHANGED <<tvars, pvars, wvars, gvars, fvars, cvars, mvars>>

\* Lines 154-155 and 185-186.
SWake ==
  /\ sib.pc = "backoff"
  /\ sib' = IF LoopContinues(sib.attempt)
              THEN [sib EXCEPT !.attempt = sib.attempt + 1, !.pc = "fetch"]
              ELSE [sib EXCEPT !.timer = FALSE, !.pc = "done", !.result = "error",
                               !.thrown = IF sib.lastErr = NoErr THEN [kind |-> "unknown"]
                                          ELSE sib.lastErr]
  /\ UNCHANGED <<tvars, pvars, wvars, gvars, fvars, cvars, mvars>>

\* Line 137: the timer of the second call fires.
STimeout ==
  /\ sib.timer /\ ~sib.aborted
  /\ sib.pc \in {"fetch", "backoff"}
  /\ sib' = [sib EXCEPT !.aborted = TRUE]
  /\ aborted' = OwnController(aborted)
  /\ UNCHANGED <<t_pc, attempt, timer, lastErr, t_hist, t_waits, t_result, t_thrown,
                 t_req, t_sent>>
  /\ UNCHANGED <<pvars, wvars, gvars, fvars, cvars, mvars>>

SFetchAny == \E o \in Responses \cup Rejections : SFetch(o)

TFetchAny == \E o \in Responses \cup Rejections, j \in JitterValues : TFetch(o, j)

\* ------------------------------------------------------------------------
\* Entities and search pages
\* ------------------------------------------------------------------------
\* A PersonBase as far as the client reads it: id ("" when missing),
\* teamLeaderId (NoId when null or missing), directReportCount (0 when missing).
Person(i, l, c) == [id |-> i, teamLeaderId |-> l, directReportCount |-> c]
NoEntity == [id |-> "<none>", teamLeaderId |-> NoId, directReportCount |-> 0]

\* An absolute URL: where it points and what it asks for.
Url(b, p) == [base |-> b, path |-> p]
baseUrl == "api.justsift.com/v1"
NoNext == Url("", "")

\* The outcome of one logical request as its caller sees it: it throws
\* (Failure), resolves to undefined (a 204: Undefined), or to a page body.
Failure == [kind |-> "throws"]
Undefined == [kind |-> "undefined"]
Items(d) == [kind |-> "items", items |-> d]
Page(d, n) == [kind |-> "page", data |-> d, next |-> n]
NoResp == [kind |-> "none"]

\* dedupeById (lines 336-346): first occurrence of every non-empty id.
RECURSIVE DedupeFrom(_, _, _)
DedupeFrom(arr, seen, acc) ==
  IF arr = <<>> THEN acc
  ELSE LET x == Head(arr) IN
       IF x.id \in {"", Absent} \/ x.id \in seen
         THEN DedupeFrom(Tail(arr), seen, acc)
         ELSE DedupeFrom(Tail(arr), seen \cup {x.id}, Append(acc, x))
KeepAll(arr) == arr
DedupeKeepingEmpty(arr) ==
  DedupeFrom(arr, {}, <<>>) \o SelectSeq(arr, LAMBDA x : x.id \in {"", Absent})
dedupeById(arr) == DedupeFrom(arr, {}, <<>>)

\* ------------------------------------------------------------------------
\* getDirectReports (with searchPeoplePost, followSearchNext, requestJson)
\* ------------------------------------------------------------------------
MaxPages == 2

\* requestJson: url = `${this.baseUrl}${path}`
RequestJsonUrl(path) == Url(baseUrl, path)
\* searchPeoplePost(body): POST /search/people
SearchPeoplePost(body) ==
  [method |-> "POST", url |-> RequestJsonUrl("/search/people"), body |-> JsonBody(body)]
FollowSearchNextRebuilt(nextUrl) ==
  [method |-> "GET", url |-> Url(baseUrl, nextUrl.path), body |-> NoBody]
\* followSearchNext(nextUrl): requestJsonByUrl('GET', nextUrl)
FollowSearchNext(nextUrl) ==
  [method |-> "GET", url |-> nextUrl, body |-> NoBody]

\* An optional numeric option: given with value v, or left out.
Given(v) == [given |-> TRUE, v |-> v]
LeftOut == [given |-> FALSE, v |-> 0]

DefaultPageSize == 100

ClampUpperOnly(pageSize) == Min(pageSize, 100)

\* Math.min(Math.max(1, pageSize), 100)
ClampPageSize(pageSize) == Min(Max(1, pageSize), 100)

\* getOrgSubtree, line 267: Math.min(Math.max(1, opts.pageSize ?? 100), 100)
WalkPageSize(o) == Min(Max(1, IF o.given THEN o.v ELSE DefaultPageSize), 100)

\* The pageSize parameter of getDirectReports (pageSize = 100 when it is
\* left out): passed by a direct caller, or by an expansion of getOrgSubtree,
\* line 288, which passes its own clamped value.
PageSizeParam(arg) ==
  IF arg.caller = "walk" THEN WalkPageSize(arg.requested)
  ELSE IF arg.requested.given THEN arg.requested.v ELSE DefaultPageSize

\* { page: 1, pageSize: size, filter: { field: 'teamLeaderId', comparison: 'eq', value: managerId } }
DirectReportsBody(id, sz) ==
  [page |-> 1, pageSize |-> sz, field |-> "teamLeaderId", comparison |-> "eq", value |-> id]

\* resp.links?.next as a condition
HasNext(r) == r.next # NoNext

NotGivenNever(v) == FALSE

\* !idOrEmail, !managerId: the empty string and a missing argument are falsy
NotGiven(v) == v = "" \/ v = Absent

PItemIds == {"a", "b", ""}
PItems == {Person(i, "m", 0) : i \in PItemIds}
PageDatas ==
  {<<>>} \cup {<<x>> : x \in PItems} \cup {<<x, y>> : x \in PItems, y \in PItems}
NextRefs == {Url(baseUrl, "/search/people?page=2"), Url("cdn.example", "/cursor/9")}
ManagerIds == {"", Absent, "m"}
PageSizes == {0, 25, 101}
PageSizeArgs ==
  {[caller |-> c, requested |-> r] :
     c \in {"direct", "walk"}, r \in {Given(v) : v \in PageSizes} \cup {LeftOut}}

PInit ==
  /\ p_pc = "idle" /\ managerId = "" /\ size = 0 /\ out = <<>> /\ resp = NoResp
  /\ pageSizeArg = [caller |-> "direct", requested |-> LeftOut]
  /\ requests = <<>> /\ pagesSeen = <<>> /\ p_return = <<>>

\* Lines 247-251: the guard, the clamp, and the first (POST) request is issued.
PCall(id, arg) ==
  /\ p_pc = "idle"
  /\ managerId' = id
  /\ pageSizeArg' = arg
  /\ IF NotGiven(id)
       THEN /\ p_pc' = "failed"
            /\ UNCHANGED <<size, out, resp, requests, pagesSeen, p_return>>
       ELSE /\ size' = ClampPageSize(PageSizeParam(arg))
            /\ out' = <<>>
            /\ requests' = <<SearchPeoplePost(DirectReportsBody(id, ClampPageSize(PageSizeParam(arg))))>>
            /\ p_pc' = "first"
            /\ UNCHANGED <<resp, pagesSeen, p_return>>
  /\ UNCHANGED <<tvars, wvars, gvars, fvars, cvars, mvars, svars>>

\* Lines 252-257: the awaited request settled with r; push its data, then
\* either go round the while loop or return the deduplicated out.
PStep(r) ==
  IF r.kind # "page"
    THEN \* the request threw, or resp is undefined and resp.data throws
         /\ p_pc' = "failed"
         /\ UNCHANGED <<out, resp, p_return>>
    ELSE /\ resp' = r
         /\ out' = out \o r.data
         /\ IF HasNext(r)
              THEN p_pc' = "loop" /\ UNCHANGED p_return
              ELSE p_return' = dedupeById(out \o r.data) /\ p_pc' = "returned"

\* The page received and, when the loop goes on, the request that line 255
\* issues for its next reference.
PRecord(r) ==
  IF r.kind # "page"
    THEN UNCHANGED <<requests, pagesSeen>>
    ELSE /\ pagesSeen' = Append(pagesSeen, r)
         /\ requests' = IF HasNext(r) THEN Append(requests, FollowSearchNext(r.next))
                                      ELSE requests

PAfterPage(r) ==
  /\ PStep(r)
  /\ PRecord(r)
  /\ UNCHANGED <<managerId, size, pageSizeArg>>

\* The server may attach a next reference only while fewer than MaxPages
\* pages have been served.
PServerPages ==
  {Page(d, NoNext) : d \in PageDatas}
  \cup {Page(d, n) : d \in PageDatas,
                     n \in IF Len(pagesSeen) + 1 < MaxPages THEN NextRefs ELSE {}}

PFirst(r) == p_pc = "first" /\ PAfterPage(r) /\ UNCHANGED <<tvars, wvars, gvars, fvars, cvars, mvars, svars>>
PFollow(r) == p_pc = "loop" /\ PAfterPage(r) /\ UNCHANGED <<tvars, wvars, gvars, fvars, cvars, mvars, svars>>

PCallAny == \E id \in ManagerIds, arg \in PageSizeArgs : PCall(id, arg)
PFirstAny == \E r \in PServerPages \cup {Failure, Undefined} : PFirst(r)
PFollowAny == \E r \in PServerPages \cup {Failure, Undefined} : PFollow(r)

\* The while loop against a server that is free in what it answers: a next
\* reference on every page, one that was followed before included. Out
\* holds at most MaxOut items; the requests and pages are not recorded.
MaxOut == 2
LoopPages ==
  {Page(d, n) : d \in {pd \in PageDatas : Len(out) + Len(pd) <= MaxOut},
                n \in NextRefs \cup {NoNext}}

LFollow(r) ==
  /\ p_pc = "loop"
  /\ PStep(r)
  /\ UNCHANGED <<managerId, size, pageSizeArg, requests, pagesSeen>>
  /\ UNCHANGED <<tvars, wvars, gvars, fvars, cvars, mvars, svars>>

LFollowAny == \E r \in LoopPages \cup {Failure, Undefined} : LFollow(r)

LNext ==
  \/ PCallAny
  \/ PFirstAny
  \/ LFollowAny

PNext ==
  \/ PCallAny
  \/ PFirstAny
  \/ PFollowAny

\* ------------------------------------------------------------------------
\* getOrgSubtree
\* ------------------------------------------------------------------------
DefaultMaxDepth == 6
DefaultMaxNodes == 1000
MaxDepthIn == 2
MaxNodesIn == 3

\* opts.maxDepth ?? 6
EffMaxDepth(o) == IF o.given THEN o.v ELSE DefaultMaxDepth
\* Math.max(1, opts.maxNodes ?? 1000)
EffMaxNodes(o) == Max(1, IF o.given THEN o.v ELSE DefaultMaxNodes)

\* manager?.id ?? managerIdOrEmail
RootId(mgr, key) == IF mgr = NoEntity \/ mgr.id = Absent THEN key ELSE mgr.id

SeedNodesUnchecked(includeManager, mgr) == IF includeManager THEN <<mgr>> ELSE <<>>

\* if (opts.includeManager && manager && manager.id) nodesMap.set(manager.id, manager)
SeedNodes(includeManager, mgr) ==
  IF includeManager /\ mgr # NoEntity /\ mgr.id \notin {"", Absent} THEN <<mgr>> ELSE <<>>

DepthCappedLate(depth, maxDepth) == depth > maxDepth

\* if (depth >= maxDepth) { ...; continue; }
DepthCapped(depth, maxDepth) == depth >= maxDepth

HasNodeNever(nodes, id) == FALSE

\* nodesMap.has(p.id)
HasNode(nodes, id) == \E i \in 1..Len(nodes) : nodes[i].id = id

\* if (nodesMap.size >= maxNodes) return { ..., truncated: true }
CapReached(n, maxNodes) == n >= maxNodes

HasReportsStrict(p) == p.directReportCount > 1

HasReportsAlways(p) == TRUE

\* (p.directReportCount ?? 0) > 0
HasReports(p) == p.directReportCount > 0

EdgeOfLeader(p) == [leaderId |-> p.teamLeaderId, personId |-> p.teamLeaderId]

\* edges.push({ leaderId: p.teamLeaderId ?? null, personId: p.id })
Edge(p) == [leaderId |-> p.teamLeaderId, personId |-> p.id]
QEntry(p, depth) == [leaderId |-> p.teamLeaderId, id |-> p.id, depth |-> depth]

RECURSIVE ForLoopWholeBatch(_, _, _, _)
ForLoopWholeBatch(drs, st, depth, maxNodes) ==
  IF drs = <<>> THEN st
  ELSE LET p == Head(drs)
           isNew == ~HasNode(st.nodes, p.id)
           nodes1 == IF isNew THEN Append(st.nodes, p) ELSE st.nodes
       IN ForLoopWholeBatch(Tail(drs),
                            [st EXCEPT !.edges = Append(st.edges, Edge(p)), !.nodes = nodes1,
                                       !.hit = st.hit \/ (isNew /\ CapReached(Len(nodes1), maxNodes))],
                            depth, maxNodes)

\* The for loop of lines 292-308 over what is left of drs; st.hit tells that
\* the cap return of lines 296-303 was taken.
RECURSIVE ForLoop(_, _, _, _)
ForLoop(drs, st, depth, maxNodes) ==
  IF drs = <<>> \/ st.hit THEN st
  ELSE LET p == Head(drs)
           edges1 == Append(st.edges, Edge(p))
       IN IF HasNode(st.nodes, p.id)
            THEN ForLoop(Tail(drs), [st EXCEPT !.edges = edges1], depth, maxNodes)
            ELSE LET nodes1 == Append(st.nodes, p) IN
                 IF CapReached(Len(nodes1), maxNodes)
                   THEN [st EXCEPT !.edges = edges1, !.nodes = nodes1, !.hit = TRUE]
                   ELSE ForLoop(Tail(drs),
                                [st EXCEPT !.edges = edges1, !.nodes = nodes1,
                                           !.queue = IF HasReports(p)
                                                       THEN Append(st.queue, QEntry(p, depth + 1))
                                                       ELSE st.queue,
                                           !.pushed = IF HasReports(p)
                                                        THEN Append(st.pushed, p.id)
                                                        ELSE st.pushed],
                                depth, maxNodes)

\* ---- the remote directory ----
\* The directory is a superior function par (Superiors(x) lists who x may
\* report to; NoId: nobody; cyclic reporting relations are among them) and a
\* way the service departs from it:
\*   "none"        the search for the subordinates of x returns the entities
\*                 whose superior is x, in IdOrder, each with its true
\*                 directReportCount and teamLeaderId;
\*   "zeroCounts"  every directReportCount is 0 (or missing);
\*   "oneCounts"   every directReportCount is 1;
\*   "dups"        an answer repeats its first item and holds an item without id;
\*   "share"       entity "b" is returned under every superior as well;
\*   "anon"        the entity fetched by key comes without an id.
Ids == {"r", "a", "b", "a1", "a2"}
IdOrder == <<"r", "a", "b", "a1", "a2">>
Superiors(x) ==
  CASE x = "r" -> {NoId, "a"}
    [] x = "a" -> {"r"}
    [] x = "b" -> {"r", "a"}
    [] x = "a1" -> {"a", "b"}
    [] x = "a2" -> {"a", "a1"}
StaticDirs == {par \in [Ids -> Ids \cup {NoId}] : \A x \in Ids : par[x] \in Superiors(x)}
Lies == {"none", "zeroCounts", "oneCounts", "dups", "share", "anon"}
Servers == {[par |-> par, lie |-> lie] : par \in StaticDirs, lie \in Lies}

ReportsOf(par, x) == {y \in Ids : par[y] = x}
TrueEntity(par, x) == Person(x, par[x], Cardinality(ReportsOf(par, x)))
EntityOf(srv, x) ==
  LET e == TrueEntity(srv.par, x)
  IN CASE srv.lie = "zeroCounts" -> [e EXCEPT !.directReportCount = 0]
       [] srv.lie = "oneCounts" -> [e EXCEPT !.directReportCount = 1]
       [] OTHER -> e
RECURSIVE SelectInOrder(_, _)
SelectInOrder(order, S) ==
  IF order = <<>> THEN <<>>
  ELSE IF Head(order) \in S THEN <<Head(order)>> \o SelectInOrder(Tail(order), S)
  ELSE SelectInOrder(Tail(order), S)
StaticAnswer(srv, x) ==
  LET shown == ReportsOf(srv.par, x) \cup (IF srv.lie = "share" THEN {"b"} ELSE {})
      ids == SelectInOrder(IdOrder, shown)
      items == [i \in 1..Len(ids) |-> EntityOf(srv, ids[i])]
  IN IF srv.lie = "dups" /\ items # <<>>
       THEN <<Person("", x, 0)>> \o items \o <<Head(items)>>
       ELSE items

\* What getDirectReports(id) can resolve to (the items of its pages before
\* deduplication), or Failure when it throws.
SearchAnswers(srv, id) ==
  IF id = "" THEN {Failure}
  ELSE IF id \in Ids THEN {Items(StaticAnswer(srv, id)), Failure}
  ELSE {Items(<<>>), Failure}

\* What getPerson(key).catch(() => null) can resolve to.
PersonAnswers(srv, key) ==
  IF key \notin Ids THEN {NoEntity}
  ELSE IF srv.lie = "anon" THEN {[EntityOf(srv, key) EXCEPT !.id = Absent], NoEntity}
  ELSE {EntityOf(srv, key), NoEntity}

RootKeys == {"r", ""}
MaxDepthOptions == {Given(d) : d \in 0..MaxDepthIn} \cup {LeftOut}
MaxNodesOptions == {Given(n) : n \in 0..MaxNodesIn} \cup {LeftOut}

WInit ==
  /\ w_pc = "idle" /\ rootKey = "" /\ manager = NoEntity
  /\ opts = [includeManager |-> FALSE, maxDepth |-> 0, maxNodes |-> 1]
  /\ nodesMap = <<>> /\ edges = <<>> /\ queue = <<>>
  /\ apiCalls = 0 /\ expanded = 0 /\ depthReached = 0 /\ truncated = FALSE
  /\ w_log = <<>>

\* Lines 262-280: the root is resolved (mgr is what the caught getPerson
\* gave), the options are defaulted, the node set is seeded, the root queued.
WCall(key, includeManager, maxDepthIn, maxNodesIn, mgr) ==
  /\ w_pc = "idle"
  /\ rootKey' = key
  /\ manager' = mgr
  /\ opts' = [includeManager |-> includeManager,
              maxDepth |-> EffMaxDepth(maxDepthIn),
              maxNodes |-> EffMaxNodes(maxNodesIn)]
  /\ nodesMap' = SeedNodes(includeManager, mgr)
  /\ queue' = <<[leaderId |-> NoId, id |-> RootId(mgr, key), depth |-> 0]>>
  /\ w_pc' = "loop"
  /\ UNCHANGED <<edges, apiCalls, expanded, depthReached, truncated, server, w_log>>
  /\ UNCHANGED <<tvars, pvars, gvars, fvars, cvars, mvars, svars>>

Pop(q) == [item |-> q[Len(q)], rest |-> SubSeq(q, 1, Len(q) - 1)]

\* queue.shift(): the oldest entry leaves the queue
Shift(q) == [item |-> Head(q), rest |-> Tail(q)]

\* Lines 283-284: an entry at the depth cap is dequeued and skipped.
WSkip ==
  /\ w_pc = "loop" /\ queue # <<>>
  /\ DepthCapped(Shift(queue).item.depth, opts.maxDepth)
  /\ queue' = Shift(queue).rest
  /\ depthReached' = Max(depthReached, Shift(queue).item.depth)
  /\ w_log' = Append(w_log, [op |-> "skip", id |-> Shift(queue).item.id, depth |-> Shift(queue).item.depth,
                             answer |-> NoResp])
  /\ UNCHANGED <<w_pc, opts, rootKey, manager, nodesMap, edges, apiCalls, expanded,
                 truncated, server>>
  /\ UNCHANGED <<tvars, pvars, gvars, fvars, cvars, mvars, svars>>

DirectReportsOrEmpty(ans) ==
  [threw |-> FALSE, items |-> IF ans = Failure THEN <<>> ELSE ans.items]

\* Line 288: const drs = await this.getDirectReports(id, pageSize); nothing
\* catches a rejection, it leaves getOrgSubtree.
AwaitDirectReports(ans) ==
  [threw |-> ans = Failure, items |-> IF ans = Failure THEN <<>> ELSE ans.items]

CountApiCallTwice(n) == n + 2

\* Line 287: apiCalls++ (once per expansion, before the await)
CountApiCall(n) == n + 1

\* Lines 283-308: an entry below the depth cap is dequeued and expanded; ans
\* is what the awaited getDirectReports gives.
WExpand(ans) ==
  /\ w_pc = "loop" /\ queue # <<>>
  /\ ~DepthCapped(Shift(queue).item.depth, opts.maxDepth)
  /\ apiCalls' = CountApiCall(apiCalls)
  /\ IF AwaitDirectReports(ans).threw
       THEN /\ w_pc' = "failed"
            /\ queue' = Shift(queue).rest
            /\ w_log' = Append(w_log, [op |-> "throw", id |-> Shift(queue).item.id,
                                       depth |-> Shift(queue).item.depth, answer |-> ans])
            /\ UNCHANGED <<nodesMap, edges, expanded, depthReached, truncated>>
       ELSE LET depth == Shift(queue).item.depth
                drs == dedupeById(AwaitDirectReports(ans).items)
                st == ForLoop(drs, [nodes |-> nodesMap, edges |-> edges, queue |-> Shift(queue).rest,
                                    pushed |-> <<>>, hit |-> FALSE],
                              depth, opts.maxNodes)
            IN /\ expanded' = expanded + 1
               /\ depthReached' = Max(depthReached, depth + 1)
               /\ nodesMap' = st.nodes
               /\ edges' = st.edges
               /\ queue' = st.queue
               /\ truncated' = st.hit
               /\ w_pc' = IF st.hit THEN "returned" ELSE "loop"
               /\ w_log' = Append(w_log, [op |-> "expand", id |-> Shift(queue).item.id, depth |-> depth,
                                          drs |-> drs, pushed |-> st.pushed,
                                          edgesBefore |-> Len(edges), hit |-> st.hit,
                                          nodesBefore |-> Len(nodesMap),
                                          answer |-> ans])
  /\ UNCHANGED <<opts, rootKey, manager, server>>
  /\ UNCHANGED <<tvars, pvars, gvars, fvars, cvars, mvars, svars>>

\* Lines 282 and 311-316: the queue is empty, the full result is returned.
WReturn ==
  /\ w_pc = "loop" /\ queue = <<>>
  /\ w_pc' = "returned"
  /\ truncated' = FALSE
  /\ UNCHANGED <<opts, rootKey, manager, nodesMap, edges, queue, apiCalls, expanded,
                 depthReached, server, w_log>>
  /\ UNCHANGED <<tvars, pvars, gvars, fvars, cvars, mvars, svars>>

WCallAny ==
  \E key \in RootKeys, im \in BOOLEAN, d \in MaxDepthOptions, n \in MaxNodesOptions :
    \E mgr \in PersonAnswers(server, key) : WCall(key, im, d, n, mgr)

WExpandAny ==
  /\ w_pc = "loop" /\ queue # <<>>
  /\ \E ans \in SearchAnswers(server, Shift(queue).item.id) : WExpand(ans)

WNext ==
  \/ WCallAny
  \/ WSkip
  \/ WExpandAny
  \/ WReturn


\* ------------------------------------------------------------------------
\* getFields and the /fields/person cache
\* ------------------------------------------------------------------------
\* The calls of getFields made on one client.
CallSlots == {1, 2, 3}
MaxClock == 2

NoCache == [fetchedAt |-> -1, items |-> <<"<null>">>]
\* The configured TTL, in clock units (opts.fieldsTtlMs; 0: nothing is fresh).
TtlValues == {0, 2}
\* FieldMeta[] values the service may serve.
Schemas == {<<"department">>, <<"teamLeaderId">>}
\* What the schema request resolves to: it throws, gives undefined (204), or
\* a body whose data is a schema or is missing.
Body(d) == [kind |-> "body", data |-> d]
NoData == <<Absent>>
SchemaOutcomes == {Failure, Undefined} \cup {Body(d) : d \in Schemas \cup {NoData}}

CacheFreshExclusive(force, cache, now, ttl) ==
  ~force /\ cache # NoCache /\ (now - cache.fetchedAt) < ttl - 1

CacheFreshInclusive(force, cache, now, ttl) ==
  ~force /\ cache # NoCache /\ (now - cache.fetchedAt) <= ttl

\* !forceRefresh && this.fieldsCache && (now - this.fieldsCache.fetchedAt) < this.fieldsTtlMs
CacheFresh(force, cache, now, ttl) ==
  ~force /\ cache # NoCache /\ (now - cache.fetchedAt) < ttl

\* resp?.data ?? []
FieldsItems(r) == IF r.kind = "body" /\ r.data # NoData THEN r.data ELSE <<>>

CacheNotWritten(cache, now, items) == cache

CacheItemsPatched(cache, now, items) == [cache EXCEPT !.items = items]

\* this.fieldsCache = { fetchedAt: now, items }
CacheWritten(cache, now, items) == [fetchedAt |-> now, items |-> items]

FInit ==
  /\ fieldsCache = NoCache /\ fieldsTtlMs = 0 /\ clock = 0 /\ f_calls = <<>>

\* Lines 199-204: a call starts; it returns the cached items at once or
\* issues the schema request and awaits it.
FCall(force) ==
  /\ Len(f_calls) + 1 \in CallSlots
  /\ LET fresh == CacheFresh(force, fieldsCache, clock, fieldsTtlMs)
         call == [force |-> force, now |-> clock, cacheAtStart |-> fieldsCache,
                  doneBefore |-> {i \in 1..Len(f_calls) : f_calls[i].pc = "done"},
                  inFlight |-> {i \in 1..Len(f_calls) : f_calls[i].pc = "await"},
                  requested |-> ~fresh,
                  pc |-> IF fresh THEN "done" ELSE "await",
                  served |-> NoResp,
                  result |-> IF fresh THEN fieldsCache.items ELSE <<>>,
                  cacheAfter |-> fieldsCache]
     IN f_calls' = Append(f_calls, call)
  /\ UNCHANGED <<fieldsCache, fieldsTtlMs, clock>>
  /\ UNCHANGED <<tvars, pvars, wvars, gvars, cvars, mvars, svars>>

CacheCleared(cache) == NoCache

\* Line 204: the awaited requestJson throws, lines 205-207 are not reached
\* and this.fieldsCache stays what it is.
CacheAfterFailure(cache) == cache

\* Lines 204-207: the awaited request of call i settles with r.
FSettle(i, r) ==
  /\ i \in 1..Len(f_calls)
  /\ f_calls[i].pc = "await"
  /\ IF r = Failure
       THEN /\ f_calls' = [f_calls EXCEPT ![i].pc = "failed", ![i].served = r]
            /\ fieldsCache' = CacheAfterFailure(fieldsCache)
       ELSE LET items == FieldsItems(r)
                cache == CacheWritten(fieldsCache, f_calls[i].now, items)
            IN /\ fieldsCache' = cache
               /\ f_calls' = [f_calls EXCEPT ![i].pc = "done", ![i].served = r,
                                             ![i].result = items, ![i].cacheAfter = cache]
  /\ UNCHANGED <<fieldsTtlMs, clock>>
  /\ UNCHANGED <<tvars, pvars, wvars, gvars, cvars, mvars, svars>>

\* Time passes.
FTick ==
  /\ clock < MaxClock
  /\ clock' = clock + 1
  /\ UNCHANGED <<fieldsCache, fieldsTtlMs, f_calls>>
  /\ UNCHANGED <<tvars, pvars, wvars, gvars, cvars, mvars, svars>>

FCallAny == \E force \in BOOLEAN : FCall(force)
FSettleAny == \E i \in 1..Len(f_calls), r \in SchemaOutcomes : FSettle(i, r)

FNext ==
  \/ FCallAny
  \/ FSettleAny
  \/ FTick

\* ------------------------------------------------------------------------
\* getPerson
\* ------------------------------------------------------------------------
\* undefined, as a returned value or as the data of a body
NoValue == [undefined |-> TRUE]
\* An entity as the chain reads it: its id and its reportingPath.
ChainEntity(i, path) == [id |-> i, reportingPath |-> path]

\* encodeURIComponent(idOrEmail), on the keys of the model
EncodeURIComponent(k) == IF k = "a@x.io" THEN "a%40x.io" ELSE k
\* this.requestJson('GET', `/people/${encoded}`)
GetPersonRequest(key) ==
  [method |-> "GET", url |-> RequestJsonUrl("/people/" \o EncodeURIComponent(key)),
   body |-> NoBody]

\* resp?.data
PersonData(r) == IF r.kind = "body" THEN r.data ELSE NoValue

\* Lines 192-197, given what the request resolves to: the guard throws
\* before the request, a failed request throws, anything else returns
\* resp?.data.
GetPerson(key, r) ==
  IF NotGiven(key) THEN [threw |-> TRUE, error |-> "caller", requested |-> FALSE, value |-> NoValue]
  ELSE IF r = Failure
    THEN [threw |-> TRUE, error |-> "transport", requested |-> TRUE, value |-> NoValue]
    ELSE [threw |-> FALSE, error |-> "none", requested |-> TRUE, value |-> PersonData(r)]

PersonKeys == {"", Absent, "p", "a@x.io"}
\* What the request of a lone getPerson may resolve to: it throws (a 404
\* among others), gives undefined (204), or a body with or without data.
PersonOutcomes == {Failure, Undefined, Body(ChainEntity("p", <<>>)), Body(NoValue)}

GInit == g_pc = "idle" /\ g_key = "" /\ g_requests = <<>> /\ g_return = NoValue

\* Lines 192-195: the guard, then the request is issued.
GCall(key) ==
  /\ g_pc = "idle"
  /\ g_key' = key
  /\ IF GetPerson(key, NoResp).requested
       THEN /\ g_requests' = <<GetPersonRequest(key)>>
            /\ g_pc' = "await"
       ELSE /\ g_pc' = "failed"
            /\ UNCHANGED g_requests
  /\ UNCHANGED g_return
  /\ UNCHANGED <<tvars, pvars, wvars, fvars, cvars, mvars, svars>>

\* Lines 195-196: the awaited request settled with r.
GSettle(r) ==
  /\ g_pc = "await"
  /\ IF GetPerson(g_key, r).threw
       THEN g_pc' = "failed" /\ UNCHANGED g_return
       ELSE g_pc' = "returned" /\ g_return' = GetPerson(g_key, r).value
  /\ UNCHANGED <<g_key, g_requests>>
  /\ UNCHANGED <<tvars, pvars, wvars, fvars, cvars, mvars, svars>>

GCallAny == \E key \in PersonKeys : GCall(key)
GSettleAny == \E r \in PersonOutcomes : GSettle(r)

GNext ==
  \/ GCallAny
  \/ GSettleAny

\* The record resolver: getDirectReports and getPerson.
RNext ==
  \/ PNext
  \/ GNext

\* ------------------------------------------------------------------------
\* getOrgChain
\* ------------------------------------------------------------------------
ChainIds == {"p", "l1", "l2"}
ChainKeys == {"p", ""}
\* A reportingPath that is not an array (the field is missing).
NotArray == <<Absent>>
\* The reportingPath the service holds for "p", root first.
Paths ==
  {NotArray, <<>>, <<"l1">>, <<"l1", "l2">>, <<"l2", "l1">>, <<"l1", "l1">>,
   <<"l1", "l2", "l1">>, <<"l1", "">>}
\* How the service answers GET /people/{k} for each k: with the entity, with
\* a failure, or with nothing (204).
Answers == {"ok", "fail", "undefined"}
Remotes == [path : Paths, answer : [ChainIds -> Answers]]
NoRemote == [path |-> <<>>, answer |-> [k \in ChainIds |-> "ok"]]

RemoteEntity(rem, k) == ChainEntity(k, IF k = "p" THEN rem.path ELSE <<>>)
\* What the request of getPerson(k) resolves to against rem.
RemoteOutcome(rem, k) ==
  IF k \notin ChainIds THEN Failure
  ELSE IF rem.answer[k] = "fail" THEN Failure
  ELSE IF rem.answer[k] = "undefined" THEN Undefined
  ELSE Body(RemoteEntity(rem, k))

\* Array.isArray(person.reportingPath) ? person.reportingPath : []
ReportingPath(e) == IF e.reportingPath = NotArray THEN <<>> ELSE e.reportingPath

RECURSIVE DedupeSeq(_, _)
DedupeSeq(arr, acc) ==
  IF arr = <<>> THEN acc
  ELSE IF \E i \in 1..Len(acc) : acc[i] = Head(arr)
    THEN DedupeSeq(Tail(arr), acc)
    ELSE DedupeSeq(Tail(arr), Append(acc, Head(arr)))
KeepRepeats(arr) == arr

\* Array.from(new Set(arr)): first occurrences, in insertion order
dedupe(arr) == DedupeSeq(arr, <<>>)

\* A promise of the Promise.all that has not settled yet.
Pending == [threw |-> FALSE, error |-> "pending", requested |-> FALSE, value |-> NoValue]

ChainFailsNever(results) == FALSE

\* Promise.all rejects as soon as one of its promises rejects.
ChainFails(results) == \E i \in 1..Len(results) : results[i].threw

InCompletionOrder(results, order) ==
  [k \in 1..Len(order) |-> results[order[k]].value]

\* Promise.all resolves to the values in the order of its input array.
PromiseAll(results, order) == [i \in 1..Len(results) |-> results[i].value]

SelfFirst(self, leaders, p) == IF self THEN <<p>> \o leaders ELSE leaders

\* includeSelf ? [...leaders, person] : leaders
ChainResult(self, leaders, p) == IF self THEN leaders \o <<p>> ELSE leaders

NoPrev == [has |-> FALSE, key |-> "", includeSelf |-> FALSE, returned |-> FALSE,
           result |-> <<>>]

CInit ==
  /\ c_pc = "idle" /\ c_key = "" /\ includeSelf = FALSE /\ person = NoValue
  /\ unique = <<>> /\ c_settled = <<>> /\ c_order = <<>> /\ c_fetches = <<>>
  /\ c_return = <<>> /\ c_prev = NoPrev
  /\ c_remote = NoRemote

\* Line 321: getOrgChain is called; getPerson(idOrEmail) checks the key and
\* issues its request.
CCall(key, self) ==
  /\ c_pc \in {"idle", "returned", "failed"}
  /\ c_prev' = IF c_pc = "idle" THEN c_prev
               ELSE [has |-> TRUE, key |-> c_key, includeSelf |-> includeSelf,
                     returned |-> c_pc = "returned", result |-> c_return]
  /\ c_key' = key /\ includeSelf' = self
  /\ person' = NoValue /\ unique' = <<>> /\ c_settled' = <<>> /\ c_order' = <<>>
  /\ c_return' = <<>>
  /\ IF GetPerson(key, NoResp).requested
       THEN c_fetches' = <<key>> /\ c_pc' = "person"
       ELSE c_fetches' = <<>> /\ c_pc' = "failed"
  /\ UNCHANGED c_remote
  /\ UNCHANGED <<tvars, pvars, wvars, gvars, fvars, mvars, svars>>

\* Lines 321-324: the entity's fetch settles; its reportingPath is read and
\* one getPerson per unique id is started.
CPerson ==
  /\ c_pc = "person"
  /\ LET res == GetPerson(c_key, RemoteOutcome(c_remote, c_key))
     IN IF res.threw \/ res.value = NoValue
          THEN \* getPerson threw, or person.reportingPath is read on undefined
               /\ c_pc' = "failed"
               /\ person' = res.value
               /\ UNCHANGED <<unique, c_settled, c_fetches>>
          ELSE LET ids == dedupe(ReportingPath(res.value))
               IN /\ person' = res.value
                  /\ unique' = ids
                  /\ c_settled' = [i \in 1..Len(ids) |-> Pending]
                  /\ c_fetches' = c_fetches \o SelectSeq(ids, LAMBDA k : ~NotGiven(k))
                  /\ c_pc' = "leaders"
  /\ UNCHANGED <<c_key, includeSelf, c_order, c_return, c_prev, c_remote>>
  /\ UNCHANGED <<tvars, pvars, wvars, gvars, fvars, mvars, svars>>

\* Line 324: the getPerson of the i-th unique id settles, in any order.
CSettle(i) ==
  /\ c_pc = "leaders"
  /\ i \in 1..Len(c_settled) /\ c_settled[i] = Pending
  /\ LET res == GetPerson(unique[i], RemoteOutcome(c_remote, unique[i]))
         results == [c_settled EXCEPT ![i] = res]
     IN /\ c_settled' = results
        /\ c_order' = Append(c_order, i)
        /\ c_pc' = IF ChainFails(results) THEN "failed" ELSE "leaders"
  /\ UNCHANGED <<c_key, includeSelf, person, unique, c_fetches, c_return, c_prev, c_remote>>
  /\ UNCHANGED <<tvars, pvars, wvars, gvars, fvars, mvars, svars>>

\* Lines 324-325: every promise is fulfilled, the chain is returned.
CReturn ==
  /\ c_pc = "leaders"
  /\ \A i \in 1..Len(c_settled) : c_settled[i] # Pending
  /\ c_return' = ChainResult(includeSelf, PromiseAll(c_settled, c_order), person)
  /\ c_pc' = "returned"
  /\ UNCHANGED <<c_key, includeSelf, person, unique, c_settled, c_order, c_fetches,
                 c_prev, c_remote>>
  /\ UNCHANGED <<tvars, pvars, wvars, gvars, fvars, mvars, svars>>

CCallAny == \E key \in ChainKeys, self \in BOOLEAN : CCall(key, self)
CSettleAny == \E i \in 1..Len(c_settled) : CSettle(i)

CNext ==
  \/ CCallAny
  \/ CPerson
  \/ CSettleAny
  \/ CReturn


\* ------------------------------------------------------------------------
\* The requests of the client, and makeMediaUrl
\* ------------------------------------------------------------------------
\* this.requestJson('GET', '/fields/person')
GetFieldsRequest == [method |-> "GET", url |-> RequestJsonUrl("/fields/person"), body |-> NoBody]

\* The JSON requests the client hands to requestJsonByUrl: an entity, the
\* schema, a search and a continuation page.
RequestKinds == {"entity", "schema", "search", "next"}
ClientRequest(k) ==
  CASE k = "entity" -> GetPersonRequest("a@x.io")
    [] k = "schema" -> GetFieldsRequest
    [] k = "search" -> SearchPeoplePost(DirectReportsBody("m", ClampPageSize(25)))
    [] k = "next" -> FollowSearchNext(Url("cdn.example", "/cursor/9"))

TCallAny == \E k \in RequestKinds : TCall(ClientRequest(k))

TNext ==
  \/ TCallAny
  \/ TFetchAny
  \/ TWake
  \/ TTimeout

\* Two requestJsonByUrl calls in flight on one client.
SNext ==
  \/ TCallAny
  \/ TFetchAny
  \/ TWake
  \/ TTimeout
  \/ SCall
  \/ SFetchAny
  \/ SWake
  \/ STimeout

\* The options of makeMediaUrl the model calls it with (the second is the
\* call of the test).
MediaOpts(pt, h, w, fit, tiq) ==
  [preferredType |-> pt, height |-> h, width |-> w, fit |-> fit, tokenInQuery |-> tiq]
MediaOptsSamples ==
  {MediaOpts(Absent, LeftOut, LeftOut, Absent, FALSE),
   MediaOpts("official", Given(128), LeftOut, Absent, TRUE),
   MediaOpts(Absent, LeftOut, LeftOut, Absent, TRUE),
   MediaOpts("custom", Given(0), Given(64), "crop", FALSE)}
MediaKinds == {"profile-photo", "background-photo"}
\* this.mediaToken: given or not
MediaTokens == {Absent, MediaToken}

\* url.searchParams.set(k, v) on a fresh URL: the pair is appended
SetParam(query, cond, k, v) == IF cond THEN Append(query, <<k, v>>) ELSE query

TokenAlways(tiq, mt) == TRUE

\* opts.tokenInQuery && this.mediaToken
TokenWanted(tiq, mt) == tiq /\ mt # Absent /\ mt # ""

\* Lines 236-243
makeMediaUrl(mt, idOrEmail, kind, o) ==
  LET q1 == SetParam(<<>>, o.preferredType # Absent, "preferredType", o.preferredType)
      q2 == SetParam(q1, o.height.given, "height", ToString(o.height.v))
      q3 == SetParam(q2, o.width.given, "width", ToString(o.width.v))
      q4 == SetParam(q3, o.fit # Absent, "fit", o.fit)
      q5 == SetParam(q4, TokenWanted(o.tokenInQuery, mt), "token", mt)
  IN [url |-> Url(baseUrl, "/media/people/" \o EncodeURIComponent(idOrEmail) \o "/" \o kind),
      query |-> q5]

NoMediaCall ==
  [called |-> FALSE, mediaToken |-> Absent, id |-> "", kind |-> "",
   opts |-> MediaOpts(Absent, LeftOut, LeftOut, Absent, FALSE),
   result |-> [url |-> Url("", ""), query |-> <<>>]]

MInit == m_call = NoMediaCall

\* makeMediaUrl is called on a client with media token mt (one call is
\* followed).
MMake(mt, id, kind, o) ==
  /\ ~m_call.called
  /\ m_call' = [called |-> TRUE, mediaToken |-> mt, id |-> id, kind |-> kind, opts |-> o,
                result |-> makeMediaUrl(mt, id, kind, o)]
  /\ UNCHANGED <<tvars, pvars, wvars, gvars, fvars, cvars, svars>>

MMakeAny ==
  \E mt \in MediaTokens, id \in {"p1", "a@x.io"}, kind \in MediaKinds, o \in MediaOptsSamples :
    MMake(mt, id, kind, o)

\* The client's requests and the media URLs it builds.
ANext ==
  \/ TCallAny
  \/ TFetchAny
  \/ TWake
  \/ TTimeout
  \/ MMakeAny

\* ------------------------------------------------------------------------
\* Specifications
\* ------------------------------------------------------------------------
NoServer == [par |-> [x \in Ids |-> NoId], lie |-> "none"]
Idle == TInit /\ PInit /\ WInit /\ GInit /\ FInit /\ CInit /\ MInit /\ SInit
InitT == Idle /\ server = NoServer
SpecT == InitT /\ [][TNext]_vars
\* A pending fetch settles and a backoff timer fires.
SpecTFair == SpecT /\ WF_vars(TFetchAny) /\ WF_vars(TWake)

InitP == Idle /\ server = NoServer
SpecP == InitP /\ [][RNext]_vars

\* getDirectReports where every awaited page request settles.
SpecL == InitP /\ [][LNext]_vars /\ WF_vars(PFirstAny) /\ WF_vars(LFollowAny)

InitW == Idle /\ server \in Servers
SpecW == InitW /\ [][WNext]_vars

\* getOrgSubtree where every awaited getDirectReports settles and the loop
\* goes on running until it returns or throws.
SpecWFair ==
  InitW /\ [][WNext]_vars /\ WF_vars(WSkip) /\ WF_vars(WExpandAny) /\ WF_vars(WReturn)

InitF ==
  /\ TInit /\ PInit /\ WInit /\ GInit /\ CInit /\ MInit /\ SInit /\ server = NoServer
  /\ fieldsCache = NoCache /\ clock = 0 /\ f_calls = <<>>
  /\ fieldsTtlMs \in TtlValues
SpecF == InitF /\ [][FNext]_vars

InitC ==
  /\ TInit /\ PInit /\ WInit /\ GInit /\ FInit /\ MInit /\ SInit /\ server = NoServer
  /\ c_pc = "idle" /\ c_key = "" /\ includeSelf = FALSE /\ person = NoValue
  /\ unique = <<>> /\ c_settled = <<>> /\ c_order = <<>> /\ c_fetches = <<>>
  /\ c_return = <<>> /\ c_prev = NoPrev
  /\ c_remote \in Remotes
SpecC == InitC /\ [][CNext]_vars

SpecS == InitT /\ [][SNext]_vars

InitA == Idle /\ server = NoServer
SpecA == InitA /\ [][ANext]_vars

\* ------------------------------------------------------------------------
\* Properties of the transport
\* ------------------------------------------------------------------------
IsResponse(o) == o.kind = "response"
Succeeds(o) == IsResponse(o) /\ (o.status = 204 \/ (ResOk(o) /\ o.jsonOk))
\* A transient failure: status 429, any 5xx, or a network-level failure.
TransientFailure(o) == IF IsResponse(o) THEN o.status = 429 \/ o.status >= 500 ELSE TRUE
\* A non-transient failure: a 4xx other than 429.
NonTransientFailure(o) == IsResponse(o) /\ o.status >= 400 /\ o.status <= 499 /\ o.status # 429
Resp503 == [kind |-> "response", status |-> 503, retryAfter |-> 0, jsonOk |-> FALSE]
Resp200 == [kind |-> "response", status |-> 200, retryAfter |-> 0, jsonOk |-> TRUE]

\* C3: a response with a non-transient status is not retried: once attempt 1
\* got such a response the call has failed, after exactly 1 attempt, with an
\* error that carries the status and the body text.
C3_NonTransientFailsAtOnce ==
  (Len(t_hist) >= 1 /\ NonTransientFailure(t_hist[1])) =>
     /\ t_pc = "done" /\ t_result = "error"
     /\ attempt = 1 /\ Len(t_hist) = 1
     /\ t_thrown = StatusError(t_hist[1])

\* C4: one logical call issues at most 3 fetch attempts, and when the third
\* attempt fails too the call has failed with that attempt's error, which
\* carries the HTTP status when there was a response.
C4_AtMostThreeAttempts ==
  /\ Len(t_hist) <= 3 /\ attempt <= 3
  /\ (Len(t_hist) = 3 /\ ~Succeeds(t_hist[3])) =>
        /\ t_pc = "done" /\ t_result = "error"
        /\ t_thrown = IF IsResponse(t_hist[3]) /\ ~ResOk(t_hist[3])
                        THEN StatusError(t_hist[3]) ELSE RejectError(t_hist[3])
C4_Witness ==
  /\ t_pc = "done" /\ Len(t_hist) = 3
  /\ t_hist[3] = Resp503 /\ t_thrown = [kind |-> "http", status |-> 503, body |-> TRUE]

\* C5: a transient failure on attempt 1 or 2 is followed, after one backoff
\* wait, by another attempt; the call returns the first successful response
\* (no attempt follows it); two 503 followed by a 200 is a successful call
\* with exactly 3 attempts.
C5_TransientIsRetried ==
  /\ \A i \in 1..Len(t_hist) :
       /\ (i < 3 /\ TransientFailure(t_hist[i])) =>
             /\ t_result # "error" \/ Len(t_hist) > i
             /\ Len(t_waits) >= i
             /\ Len(t_hist) = i => (t_pc = "backoff" \/ (t_pc = "fetch" /\ attempt = i + 1))
       /\ Succeeds(t_hist[i]) =>
             /\ i = Len(t_hist) /\ t_pc = "done" /\ attempt = i
             /\ t_result = IF t_hist[i].status = 204 THEN "empty" ELSE "json"
  /\ t_result \in {"json", "empty"} => Succeeds(t_hist[Len(t_hist)])
  /\ t_hist = <<Resp503, Resp503, Resp200>> => (t_result = "json" /\ attempt = 3)
C5_Witness ==
  /\ t_hist = <<Resp503, Resp503, Resp200>>
  /\ t_result = "json" /\ attempt = 3 /\ Len(t_waits) = 2

\* ------------------------------------------------------------------------
\* Properties of getDirectReports
\* ------------------------------------------------------------------------
RECURSIVE FlattenPages(_)
FlattenPages(pages) ==
  IF pages = <<>> THEN <<>> ELSE Head(pages).data \o FlattenPages(Tail(pages))
IdsOf(items) == {items[i].id : i \in 1..Len(items)}
FirstIndex(items, id) == CHOOSE i \in 1..Len(items) :
  items[i].id = id /\ \A j \in 1..(i - 1) : items[j].id # id

\* C9: the result holds the entities of all pages in page-arrival order, each
\* identifier once, at its first occurrence: no identifier twice, and every
\* identifier seen on any page present.
C9_PagesDedupedInOrder ==
  p_pc = "returned" =>
    LET all == FlattenPages(pagesSeen) IN
    /\ \A i, j \in 1..Len(p_return) : i # j => p_return[i].id # p_return[j].id
    /\ IdsOf(p_return) = IdsOf(all) \ {"", Absent}
    /\ \A i \in 1..Len(p_return) : p_return[i] = all[FirstIndex(all, p_return[i].id)]
    /\ \A i, j \in 1..Len(p_return) :
         i < j => FirstIndex(all, p_return[i].id) < FirstIndex(all, p_return[j].id)
C9_Witness ==
  /\ p_pc = "returned" /\ Len(pagesSeen) = 2
  /\ "b" \in IdsOf(pagesSeen[1].data) /\ "b" \in IdsOf(pagesSeen[2].data)
  /\ "a" \in IdsOf(pagesSeen[2].data) /\ "a" \notin IdsOf(pagesSeen[1].data)
  /\ Len(p_return) = 2

\* C10: the first page costs one structured POST search; every further
\* request is one GET to the next reference of the most recent page, used
\* verbatim; the call returns at the first page without a next reference,
\* so k pages cost exactly k requests.
C10_OneRequestPerPage ==
  /\ p_pc \in {"first", "loop", "returned"} =>
       requests[1] = [method |-> "POST", url |-> Url(baseUrl, "/search/people"),
                      body |-> JsonBody(DirectReportsBody(managerId, size))]
  /\ \A i \in 2..Len(requests) :
       /\ i - 1 <= Len(pagesSeen)
       /\ pagesSeen[i - 1].next # NoNext
       /\ requests[i] = [method |-> "GET", url |-> pagesSeen[i - 1].next, body |-> NoBody]
  /\ p_pc \in {"first", "loop"} => Len(requests) = Len(pagesSeen) + 1
  /\ p_pc = "returned" =>
       /\ Len(requests) = Len(pagesSeen)
       /\ pagesSeen[Len(pagesSeen)].next = NoNext
       /\ \A i \in 1..(Len(pagesSeen) - 1) : pagesSeen[i].next # NoNext
C10_Witness ==
  /\ p_pc = "returned" /\ Len(pagesSeen) = 2 /\ Len(requests) = 2
  /\ requests[2].url = Url("cdn.example", "/cursor/9")

\* ------------------------------------------------------------------------
\* Properties of getOrgSubtree
\* ------------------------------------------------------------------------
NodeIds(nodes) == {nodes[i].id : i \in 1..Len(nodes)}
IdSeq(nodes) == [i \in 1..Len(nodes) |-> nodes[i].id]
Expansions == {i \in 1..Len(w_log) : w_log[i].op = "expand"}
LastExpansion == w_log[CHOOSE i \in Expansions : \A j \in Expansions : j <= i]

\* The k-th superior of x in par (NoId when the chain ends before).
RECURSIVE Superior(_, _, _)
Superior(par, x, k) ==
  IF x = NoId THEN NoId
  ELSE IF k = 0 THEN x
  ELSE Superior(par, par[x], k - 1)
\* The entities found 1..d levels below root.
Descendants(par, root, d) == {x \in Ids : \E k \in 1..d : Superior(par, x, k) = root}
Acyclic(par) == \A x \in Ids : \A k \in 1..Cardinality(Ids) : Superior(par, x, k) # x
\* Every entity is returned by the search of exactly its superior, with its
\* true count of subordinates.
Consistent(srv) == srv.lie = "none"

\* C1: the node set of a returned Subtree Result never holds more than
\* maxNodes nodes.
C1_NodeCapRespected ==
  w_pc = "returned" => Len(nodesMap) <= opts.maxNodes

\* What the walk left undone when it returned: a queue entry, a fetched
\* subordinate of the last batch the for loop did not reach, or a just
\* inserted subordinate with reports that an untruncated walk would expand.
LeftUnprocessed ==
  \/ queue # <<>>
  \/ /\ Expansions # {}
     /\ LET e == LastExpansion
            done == Len(edges) - e.edgesBefore
        IN \/ done < Len(e.drs)
           \/ /\ e.hit
              /\ HasReports(e.drs[done])
              /\ e.depth + 1 < opts.maxDepth

\* C2: truncated = true if and only if the walk stopped because of the node
\* cap with something left unprocessed; a walk that has processed
\* everything returns truncated = false.
C2_TruncatedIffCutShort ==
  w_pc = "returned" => (truncated <=> LeftUnprocessed)

\* C6: no queue entry whose depth has reached maxDepth is expanded (it is
\* dequeued and skipped, and stays a node of the result), so every edge
\* comes from an expansion at a depth below maxDepth, and maxDepth = 0
\* issues no subordinate search at all.
C6_DepthCapRespected ==
  /\ \A i \in 1..Len(w_log) :
       /\ w_log[i].op \in {"expand", "throw"} => w_log[i].depth < opts.maxDepth
       /\ w_log[i].op = "skip" =>
            /\ w_log[i].depth >= opts.maxDepth
            /\ w_log[i].depth > 0 => HasNode(nodesMap, w_log[i].id)
  /\ Len(edges) > 0 => Expansions # {}
  /\ (w_pc # "idle" /\ opts.maxDepth = 0) => (apiCalls = 0 /\ edges = <<>> /\ Expansions = {})
C6_Witness ==
  /\ w_pc = "returned" /\ opts.maxDepth = 2
  /\ \E i \in 1..Len(w_log) : w_log[i].op = "skip" /\ w_log[i].depth = 2
  /\ Len(edges) >= 3

SeedNodeIds == IF opts.includeManager /\ manager # NoEntity THEN <<manager.id>> ELSE <<>>

\* The textbook breadth-first order of the entities 1..d levels below the
\* entities of frontier: level by level, superiors in the order they were
\* found, the subordinates of one superior in server order.
RECURSIVE ConcatReports(_, _)
ConcatReports(par, frontier) ==
  IF frontier = <<>> THEN <<>>
  ELSE SelectInOrder(IdOrder, ReportsOf(par, Head(frontier))) \o ConcatReports(par, Tail(frontier))
RECURSIVE LevelOrder(_, _, _)
LevelOrder(par, frontier, d) ==
  IF d <= 0 \/ frontier = <<>> THEN <<>>
  ELSE LET below == ConcatReports(par, frontier)
       IN below \o LevelOrder(par, below, d - 1)
FirstN(seq, n) == SubSeq(seq, 1, Min(n, Len(seq)))

ExampleTree == [x \in Ids |-> CASE x = "r" -> NoId
                                [] x \in {"a", "b"} -> "r"
                                [] OTHER -> "a"]
EdgeSet == {edges[i] : i \in 1..Len(edges)}
TreeEdges(par, S) == {[leaderId |-> par[x], personId |-> x] : x \in S}

\* The conclusion of C7 for the directory par and the root "r".
FullSubtreeReturned(par) ==
  LET desc == Descendants(par, "r", opts.maxDepth) IN
  /\ truncated = FALSE
  /\ NodeIds(nodesMap) = desc
  /\ Len(nodesMap) = Cardinality(desc)
  /\ EdgeSet = TreeEdges(par, desc)
  /\ Len(edges) = Cardinality(desc)
  /\ (par = ExampleTree /\ opts.maxDepth = 2) =>
        /\ IdSeq(nodesMap) = <<"a", "b", "a1", "a2">>
        /\ depthReached = 2
C7_Case ==
  /\ w_pc = "returned" /\ rootKey = "r"
  /\ Consistent(server)
  /\ ~opts.includeManager
  /\ Cardinality(Descendants(server.par, "r", opts.maxDepth)) < opts.maxNodes

\* C7 as stated: against a static, consistent directory, with fewer
\* descendants within maxDepth than maxNodes and includeManager = false, the
\* result is untruncated, its nodes are exactly the descendants at depth
\* 1..maxDepth, each once, with exactly one edge per descendant.
C7_FullSubtree_AnyConsistent ==
  C7_Case => FullSubtreeReturned(server.par)

\* C7, amended: the same for a consistent directory whose reporting
\* relation has no cycle.
C7_FullSubtree ==
  (C7_Case /\ Acyclic(server.par)) => FullSubtreeReturned(server.par)
C7_Witness ==
  /\ C7_Case /\ server.par = ExampleTree
  /\ opts.maxDepth = 2 /\ opts.maxNodes = 1000
  /\ IdSeq(nodesMap) = <<"a", "b", "a1", "a2">>
  /\ edges = <<[leaderId |-> "r", personId |-> "a"], [leaderId |-> "r", personId |-> "b"],
               [leaderId |-> "a", personId |-> "a1"], [leaderId |-> "a", personId |-> "a2"]>>
  /\ depthReached = 2 /\ truncated = FALSE

\* C8: when the walk hits the node cap the returned node set is exactly the
\* first maxNodes distinct entities in breadth-first discovery order (the
\* seeded root counted first), and truncated = true.
C8_CapReturnsFirstN ==
  (w_pc = "returned" /\ rootKey = "r" /\ Consistent(server) /\ Acyclic(server.par)) =>
    LET order == SeedNodeIds \o LevelOrder(server.par, <<"r">>, opts.maxDepth)
    IN /\ truncated =>
            /\ IdSeq(nodesMap) = FirstN(order, opts.maxNodes)
            /\ Len(nodesMap) = opts.maxNodes
       /\ (server.par = ExampleTree /\ opts.maxNodes = 3 /\ ~opts.includeManager
           /\ opts.maxDepth >= 2) =>
             (truncated /\ IdSeq(nodesMap) = <<"a", "b", "a1">>)


\* ------------------------------------------------------------------------
\* getFields: the schema cache
\* ------------------------------------------------------------------------
\* The schema a settled request carried: its data, or the empty schema when
\* the answer had none.
ServedSchema(r) == IF r.kind = "body" /\ r.data \in Schemas THEN r.data ELSE <<>>

\* When the claim says a call must go to the network.
MustRequest(c) ==
  \/ c.force
  \/ c.cacheAtStart = NoCache
  \/ ~(c.now - c.cacheAtStart.fetchedAt < fieldsTtlMs)

\* C11: getFields issues a schema request exactly when forceRefresh is set,
\* or nothing is cached, or the cached snapshot's age is not below the TTL;
\* otherwise it returns the cached schema without a request.  After a
\* successful request the cache holds the fetched schema and the call
\* returns it.
C11_RequestIffStale ==
  \A i \in 1..Len(f_calls) :
    LET c == f_calls[i] IN
      /\ c.requested <=> MustRequest(c)
      /\ ~c.requested => (c.pc = "done" /\ c.result = c.cacheAtStart.items
                          /\ c.served = NoResp)
      /\ (c.requested /\ c.pc = "done") =>
            /\ c.served # Failure /\ c.served # NoResp
            /\ c.cacheAfter.items = ServedSchema(c.served)
            /\ c.result = ServedSchema(c.served)

\* A call that does not force a refresh found a snapshot that had reached the
\* TTL, went to the network and replaced the snapshot.
C11_Witness ==
  \E i \in 1..Len(f_calls) :
    /\ f_calls[i].requested /\ ~f_calls[i].force /\ f_calls[i].pc = "done"
    /\ f_calls[i].cacheAtStart # NoCache
    /\ f_calls[i].result \in Schemas
    /\ f_calls[i].result # f_calls[i].cacheAtStart.items
    /\ fieldsCache.items = f_calls[i].result

\* The second call started after the first had returned, neither forces a
\* refresh, and the second starts within the TTL of the first.
C12_Case ==
  /\ Len(f_calls) >= 2
  /\ ~f_calls[1].force /\ ~f_calls[2].force
  /\ f_calls[1].pc = "done" /\ 1 \in f_calls[2].doneBefore
  /\ f_calls[2].now - f_calls[1].now < fieldsTtlMs

\* C12: two getFields(false) calls in sequence within the TTL make exactly
\* one schema request in total, and the second call returns the schema the
\* first returned, whatever the service would serve by then.
C12_SecondCallCached ==
  C12_Case =>
    /\ f_calls[1].requested /\ ~f_calls[2].requested
    /\ f_calls[2].pc = "done"
    /\ f_calls[2].result = f_calls[1].result

C12_Witness ==
  /\ C12_Case
  /\ f_calls[2].now > f_calls[1].now
  /\ f_calls[1].result \in Schemas
  /\ f_calls[2].result = f_calls[1].result


\* ------------------------------------------------------------------------
\* getOrgSubtree: failures
\* ------------------------------------------------------------------------
\* The searches of the walk that were answered with a failure.
FailedSearches == {i \in 1..Len(w_log) : w_log[i].answer = Failure}

\* C13: a getDirectReports failure during getOrgSubtree fails the whole walk
\* and nothing is returned; the only result that leaves queued entities
\* unprocessed is the one returned at the node cap, with truncated = TRUE.
C13_FailureFailsWalk ==
  /\ FailedSearches # {} => (w_pc = "failed" /\ FailedSearches = {Len(w_log)})
  /\ w_pc = "returned" => (FailedSearches = {} /\ (queue # <<>> => truncated))

\* A search failed after an earlier one had already put nodes into the map.
C13_Witness ==
  /\ w_pc = "failed"
  /\ Len(w_log) >= 2
  /\ w_log[Len(w_log)].answer = Failure
  /\ Len(nodesMap) >= 2


\* ------------------------------------------------------------------------
\* Transport: the timeout
\* ------------------------------------------------------------------------
AbortError == [kind |-> "abort"]

\* What holds once the timeout has expired: no success, and a finished call
\* has failed with the abort error of the cancelled request.
AfterExpiry ==
  /\ t_result \notin {"json", "empty"}
  /\ t_pc = "done" =>
       /\ t_result = "error" /\ t_thrown = AbortError
       /\ t_hist # <<>> /\ t_hist[Len(t_hist)] = AbortError

ReturnedSuperiors == IF includeSelf THEN SubSeq(c_return, 1, Len(c_return) - 1) ELSE c_return
\* The reporting path the service holds for the key of the call.
HeldPath == IF c_remote.path = NotArray THEN <<>> ELSE c_remote.path
\* The ids of a path in path order, each at its first occurrence.
FirstOccurrences(path) ==
  LET keep == {j \in 1..Len(path) : \A k \in 1..(j - 1) : path[k] # path[j]}
  IN [i \in 1..Cardinality(keep) |->
        path[CHOOSE j \in keep : Cardinality({k \in keep : k <= j}) = i]]
\* What the service holds for id k: the entity, or nothing when it answers
\* without content.
Held(k) == IF c_remote.answer[k] = "ok" THEN RemoteEntity(c_remote, k) ELSE NoValue
\* The keys whose fetch fails: the service fails them, does not know them,
\* or getPerson rejects them.
FailingKeys == {k \in ChainIds : c_remote.answer[k] = "fail"} \cup {""}

\* C15: getOrgChain(key, TRUE) returns a sequence whose last element is the
\* entity at key; against the same remote state getOrgChain(key, FALSE) is
\* that sequence without its last element.
C15_SelfIsLast ==
  /\ (c_pc = "returned" /\ includeSelf) =>
        (c_return # <<>> /\ c_return[Len(c_return)] = RemoteEntity(c_remote, c_key))
  /\ (c_pc = "returned" /\ c_prev.has /\ c_prev.returned /\ c_prev.key = c_key
        /\ c_prev.includeSelf # includeSelf) =>
        LET with == IF includeSelf THEN c_return ELSE c_prev.result
            without == IF includeSelf THEN c_prev.result ELSE c_return
        IN /\ Len(with) = Len(without) + 1
           /\ without = SubSeq(with, 1, Len(with) - 1)

\* Both calls returned against the same remote state, the chain has two
\* superiors.
C15_Witness ==
  /\ c_pc = "returned" /\ includeSelf /\ Len(c_return) = 3
  /\ c_prev.has /\ c_prev.returned /\ c_prev.key = c_key /\ ~c_prev.includeSelf
  /\ Len(c_prev.result) = 2

\* C16: the superiors are returned in reporting-path order, whatever the
\* order in which their concurrent fetches completed.
C16_PathOrder ==
  c_pc = "returned" =>
    /\ Len(ReturnedSuperiors) = Len(FirstOccurrences(HeldPath))
    /\ \A i \in 1..Len(ReturnedSuperiors) : ReturnedSuperiors[i] = Held(FirstOccurrences(HeldPath)[i])

\* The fetch of the second superior completed before the fetch of the first.
C16_Witness ==
  /\ c_pc = "returned"
  /\ c_order = <<2, 1>>
  /\ c_remote.path = <<"l1", "l2">>
  /\ ReturnedSuperiors = <<RemoteEntity(c_remote, "l1"), RemoteEntity(c_remote, "l2")>>

\* C17: when the fetch of the entity or of one superior fails, getOrgChain
\* fails as a whole; no chain is returned that leaves the failed superior
\* out.
C17_FailureFailsChain ==
  /\ c_pc = "returned" =>
        /\ c_key \notin FailingKeys
        /\ \A i \in 1..Len(HeldPath) : HeldPath[i] \notin FailingKeys
        /\ Len(ReturnedSuperiors) = Len(FirstOccurrences(HeldPath))
  /\ (\E i \in 1..Len(c_settled) : c_settled[i].threw) => c_pc = "failed"

\* One superior had been fetched when the fetch of another failed.
C17_Witness ==
  /\ c_pc = "failed"
  /\ Len(c_order) = 2
  /\ ~c_settled[c_order[1]].threw /\ c_settled[c_order[1]].value # NoValue
  /\ c_settled[c_order[2]].threw


\* ------------------------------------------------------------------------
\* The record resolver: getPerson and the identifier guards
\* ------------------------------------------------------------------------
\* C18: getPerson with a non-empty key returns the entity the service holds
\* or fails; it never completes successfully without an entity.
C18_EntityOrFailure ==
  g_pc = "returned" => g_return # NoValue

\* An identifier that is empty or missing.
EmptyOrMissing(id) == id \in {"", Absent}

\* C19: getPerson and getDirectReports reject an empty or missing identifier
\* before any network request is issued.
C19_GuardBeforeRequest ==
  /\ (g_pc # "idle" /\ EmptyOrMissing(g_key)) => (g_pc = "failed" /\ g_requests = <<>>)
  /\ (p_pc # "idle" /\ EmptyOrMissing(managerId)) => (p_pc = "failed" /\ requests = <<>>)

\* getPerson was called with the empty string and getDirectReports without
\* an identifier.
C19_Witness ==
  /\ g_pc = "failed" /\ g_key = ""
  /\ p_pc = "failed" /\ managerId = Absent
  /\ requests = <<>> /\ g_requests = <<>>

\* C20: getOrgSubtree and getOrgChain called with an empty identifier fail,
\* for every value of their options.  Stated for getOrgSubtree: no walk of
\* the empty identifier returns a result.
C20_EmptyKeyFailsWalk ==
  (w_pc = "returned") => rootKey # ""


\* ------------------------------------------------------------------------
\* Transport: no content
\* ------------------------------------------------------------------------
\* The attempts of the call that were answered with 204.
NoContentAttempts ==
  {i \in 1..Len(t_hist) : t_hist[i].kind = "response" /\ t_hist[i].status = 204}

\* C21: a 204 response on any attempt completes the logical call with an
\* empty result: that attempt is the last one, nothing is thrown and no
\* backoff follows it.
C21_NoContentIsSuccess ==
  \A i \in NoContentAttempts :
    /\ i = Len(t_hist) /\ attempt = i
    /\ t_pc = "done" /\ t_result = "empty" /\ t_thrown = NoErr
    /\ Len(t_waits) = i - 1
    /\ ~timer

\* The third attempt was answered with 204 after two transient failures.
C21_Witness ==
  /\ NoContentAttempts = {3}
  /\ t_pc = "done" /\ t_result = "empty"


\* A call that started while a schema request of another call was in flight
\* and found a snapshot younger than the TTL.
ReadDuringRefresh(c) ==
  /\ c.inFlight # {} /\ ~c.force
  /\ c.cacheAtStart # NoCache
  /\ c.now - c.cacheAtStart.fetchedAt < fieldsTtlMs

\* C22: while a schema refresh is in flight, a getFields(false) whose cached
\* snapshot is within the TTL returns that snapshot at once; it neither
\* waits for the refresh nor issues a request of its own.
C22_ReadDuringRefresh ==
  \A j \in 1..Len(f_calls) :
    ReadDuringRefresh(f_calls[j]) =>
      /\ ~f_calls[j].requested /\ f_calls[j].served = NoResp
      /\ f_calls[j].pc = "done"
      /\ f_calls[j].result = f_calls[j].cacheAtStart.items

\* The read has returned the old snapshot and the refresh is still awaited.
C22_Witness ==
  \E j \in 1..Len(f_calls) :
    /\ ReadDuringRefresh(f_calls[j])
    /\ f_calls[j].pc = "done" /\ f_calls[j].result \in Schemas
    /\ \E i \in f_calls[j].inFlight : f_calls[i].pc = "await"


\* The snapshots that the completed refreshes produced: the schema a request
\* carried together with the time stamp of the call that made the request.
RefreshSnapshots ==
  {[fetchedAt |-> f_calls[i].now, items |-> ServedSchema(f_calls[i].served)] :
     i \in {k \in 1..Len(f_calls) : f_calls[k].requested /\ f_calls[k].pc = "done"}}

\* C23: under any interleaving of getFields calls the cache holds nothing or
\* one complete snapshot, the schema and the time stamp of one and the same
\* refresh, and every reader saw such a value.
C23_WholeSnapshot ==
  /\ fieldsCache = NoCache \/ fieldsCache \in RefreshSnapshots
  /\ \A j \in 1..Len(f_calls) :
        f_calls[j].cacheAtStart = NoCache \/ f_calls[j].cacheAtStart \in RefreshSnapshots

\* Two overlapping refreshes carried different schemas; a reader saw the
\* snapshot of one of them and the cache now holds the other's.
C23_Witness ==
  \E i, j, k \in 1..Len(f_calls) :
    /\ i # j /\ f_calls[i].requested /\ f_calls[j].requested
    /\ j \in f_calls[i].inFlight \/ i \in f_calls[j].inFlight
    /\ f_calls[i].pc = "done" /\ f_calls[j].pc = "done"
    /\ f_calls[i].result \in Schemas /\ f_calls[j].result \in Schemas
    /\ f_calls[i].result # f_calls[j].result
    /\ f_calls[k].cacheAtStart = f_calls[i].cacheAfter
    /\ fieldsCache = f_calls[j].cacheAfter
    /\ fieldsCache # f_calls[i].cacheAfter


\* ------------------------------------------------------------------------
\* Credentials
\* ------------------------------------------------------------------------
\* The values of the headers of a fetch.
HeaderValues(init) ==
  {init.headers.Authorization, init.headers.Accept, init.headers.ContentType}
\* The positions of the token parameter in a query.
TokenParams(query) == {j \in 1..Len(query) : query[j][1] = "token"}

\* C24: every attempt of every JSON request carries the bearer data
\* credential in its Authorization header and the media credential in no
\* header; makeMediaUrl puts the media credential into the query only when
\* tokenInQuery is set, and the data credential never.
C24_Credentials ==
  /\ t_pc # "idle" => Len(t_sent) = attempt
  /\ \A i \in 1..Len(t_sent) :
        /\ t_sent[i].headers.Authorization = "Bearer data-token"
        /\ t_sent[i].url = t_req.url /\ t_sent[i].method = t_req.method
        /\ \A v \in HeaderValues(t_sent[i]) : v \notin {MediaToken, "Bearer media-token"}
  /\ m_call.called =>
        LET q == m_call.result.query IN
          /\ TokenParams(q) # {} <=> (m_call.opts.tokenInQuery /\ m_call.mediaToken = MediaToken)
          /\ \A j \in TokenParams(q) : q[j][2] = MediaToken
          /\ \A j \in 1..Len(q) : q[j][2] # DataToken /\ q[j][2] # "Bearer data-token"

\* A continuation page was requested three times, and a media URL with the
\* token in its query was built.
C24_Witness ==
  /\ Len(t_sent) = 3 /\ t_req.url = ClientRequest("next").url
  /\ m_call.called /\ TokenParams(m_call.result.query) # {}
  /\ m_call.opts.preferredType = "official"


\* ------------------------------------------------------------------------
\* The page size
\* ------------------------------------------------------------------------
\* The page size the claim asks for: the requested one brought into 1..100,
\* and 100 when none is requested.
ExpectedPageSize(r) ==
  IF ~r.given THEN 100 ELSE IF r.v < 1 THEN 1 ELSE IF r.v > 100 THEN 100 ELSE r.v

\* C25: the page size that getDirectReports sends, called directly or by an
\* expansion of getOrgSubtree, is within 1..100: lower values are raised to
\* 1, higher ones lowered to 100, and no value makes the call fail.
C25_PageSizeClamped ==
  (p_pc # "idle" /\ ~EmptyOrMissing(managerId)) =>
    /\ requests # <<>>
    /\ requests[1].body[1].pageSize \in 1..100
    /\ requests[1].body[1].pageSize = ExpectedPageSize(pageSizeArg.requested)
    /\ size = requests[1].body[1].pageSize

\* A direct call asked for 0 and sent 1.
C25_Witness ==
  /\ p_pc = "returned" /\ pageSizeArg = [caller |-> "direct", requested |-> Given(0)]
  /\ requests[1].body[1].pageSize = 1


\* ------------------------------------------------------------------------
\* getOrgSubtree: the cap return
\* ------------------------------------------------------------------------
\* The last iteration of the walk.
LastStep == w_log[Len(w_log)]
\* How many subordinates of the last batch got an edge.
Processed == Len(edges) - LastStep.edgesBefore
\* The subordinates of the last batch that were new to the node set, and
\* those among them at which the node set reached maxNodes.
NewInBatch ==
  {j \in 1..Len(LastStep.drs) :
     \A n \in 1..LastStep.nodesBefore : nodesMap[n].id # LastStep.drs[j].id}
CapHitters ==
  {j \in NewInBatch :
     LastStep.nodesBefore + Cardinality({i \in NewInBatch : i <= j}) >= opts.maxNodes}

\* C26: when the node cap is hit the walk returns at once: the subordinate
\* that hit the cap has its edge and is the last node, the subordinates
\* after it in the batch got neither a node nor an edge, it was not queued,
\* and no expansion follows.
C26_CapReturnsAtOnce ==
  (w_pc = "returned" /\ truncated) =>
    /\ w_log # <<>> /\ LastStep.op = "expand" /\ LastStep.hit
    /\ Processed \in CapHitters /\ \A j \in CapHitters : Processed <= j
    /\ \A j \in 1..Processed :
          edges[LastStep.edgesBefore + j] =
            [leaderId |-> LastStep.drs[j].teamLeaderId, personId |-> LastStep.drs[j].id]
    /\ nodesMap[Len(nodesMap)] = LastStep.drs[Processed]
    /\ Len(nodesMap) > LastStep.nodesBefore
    /\ \A n \in (LastStep.nodesBefore + 1)..Len(nodesMap) :
          \E j \in 1..Processed : LastStep.drs[j] = nodesMap[n]
    /\ \A i \in 1..Len(LastStep.pushed) : LastStep.pushed[i] # LastStep.drs[Processed].id
    /\ apiCalls = Cardinality({i \in 1..Len(w_log) : w_log[i].op \in {"expand", "throw"}})

\* The cap was hit on the first of two fetched subordinates; the second one
\* is in no node and no edge although the first one has subordinates.
C26_Witness ==
  /\ w_pc = "returned" /\ truncated
  /\ Len(LastStep.drs) = 2 /\ Processed = 1
  /\ LastStep.drs[1].directReportCount > 0
  /\ LastStep.drs[2].id \notin NodeIds(nodesMap)
  /\ \A i \in 1..Len(edges) : edges[i].personId # LastStep.drs[2].id


\* ------------------------------------------------------------------------
\* getOrgSubtree: the order of expansion
\* ------------------------------------------------------------------------
RECURSIVE PushedUpTo(_)
\* The ids the first n iterations of the walk put on the queue, in order.
PushedUpTo(n) ==
  IF n = 0 THEN <<>>
  ELSE PushedUpTo(n - 1) \o (IF w_log[n].op = "expand" THEN w_log[n].pushed ELSE <<>>)
\* Every id put on the queue so far, the root first.
EnqueuedIds == <<RootId(manager, rootKey)>> \o PushedUpTo(Len(w_log))

\* C27: identifiers leave the queue in the order they were put on it, so the
\* depths of successive expansions never decrease.
C27_FifoOrder ==
  w_pc # "idle" =>
    /\ Len(w_log) <= Len(EnqueuedIds)
    /\ \A i \in 1..Len(w_log) : w_log[i].id = EnqueuedIds[i]
    /\ \A i \in 1..Len(w_log) : \A j \in i..Len(w_log) : w_log[i].depth <= w_log[j].depth
    /\ w_pc = "loop" =>
          /\ Len(queue) = Len(EnqueuedIds) - Len(w_log)
          /\ \A i \in 1..Len(queue) : queue[i].id = EnqueuedIds[Len(w_log) + i]

\* Both subordinates of the root were expanded before a subordinate of the
\* first of them.
C27_Witness ==
  /\ Len(w_log) >= 4
  /\ \A i \in 1..4 : w_log[i].op = "expand"
  /\ w_log[1].depth = 0 /\ w_log[2].depth = 1 /\ w_log[3].depth = 1 /\ w_log[4].depth = 2
  /\ w_log[2].pushed # <<>>


\* ------------------------------------------------------------------------
\* getOrgSubtree: what is enqueued
\* ------------------------------------------------------------------------
\* Subordinate j of the batch of iteration n was new to the node set and
\* reports subordinates of its own.
NewWithReports(n, j) ==
  /\ w_log[n].drs[j].directReportCount > 0
  /\ \A m \in 1..w_log[n].nodesBefore : nodesMap[m].id # w_log[n].drs[j].id

\* C28: a discovered subordinate is put on the queue only if it is new to
\* the node set and reports directReportCount > 0; apart from the root, a
\* search is made only for such subordinates.
C28_EnqueueOnlyManagers ==
  /\ \A n \in 1..Len(w_log) :
        w_log[n].op = "expand" =>
          \A i \in 1..Len(w_log[n].pushed) :
            \E j \in 1..Len(w_log[n].drs) :
              w_log[n].drs[j].id = w_log[n].pushed[i] /\ NewWithReports(n, j)
  /\ \A i \in 2..Len(w_log) :
        w_log[i].op \in {"expand", "throw"} =>
          \E n \in 1..(i - 1) :
            /\ w_log[n].op = "expand"
            /\ \E j \in 1..Len(w_log[n].drs) :
                  w_log[n].drs[j].id = w_log[i].id /\ NewWithReports(n, j)
  /\ w_log # <<>> => w_log[1].id = RootId(manager, rootKey)

\* Of two subordinates of the root, the one that reports subordinates was
\* searched and the one that reports none was not.
C28_Witness ==
  /\ w_pc = "returned" /\ ~truncated
  /\ Len(w_log) >= 2 /\ w_log[1].op = "expand" /\ w_log[2].op = "expand"
  /\ \E j \in 1..Len(w_log[1].drs) :
        /\ w_log[1].drs[j].directReportCount = 0
        /\ \A i \in 1..Len(w_log) : w_log[i].id # w_log[1].drs[j].id


\* ------------------------------------------------------------------------
\* getOrgSubtree: the root
\* ------------------------------------------------------------------------
\* The fetch of the root entity failed: manager is null.
RootFetchFailed == w_pc # "idle" /\ manager = NoEntity

\* C29: when the fetch of the root entity fails the walk goes on with the
\* identifier of the caller as root key: that key is the first one taken
\* from the queue and, unless the depth cap is 0, the first one searched
\* for; manager stays null, nothing is seeded into the node set even with
\* includeManager, and the walk fails only if a search fails.
C29_BestEffortRoot ==
  RootFetchFailed =>
    /\ w_log = <<>> =>
          /\ w_pc = "loop" /\ nodesMap = <<>>
          /\ queue = <<[leaderId |-> NoId, id |-> rootKey, depth |-> 0]>>
    /\ w_log # <<>> =>
          /\ w_log[1].id = rootKey /\ w_log[1].depth = 0
          /\ opts.maxDepth > 0 => w_log[1].op \in {"expand", "throw"}
          /\ w_log[1].op = "expand" => w_log[1].nodesBefore = 0
    /\ \A m \in 1..Len(nodesMap) :
          \E n \in 1..Len(w_log) :
            /\ w_log[n].op = "expand"
            /\ \E j \in 1..Len(w_log[n].drs) : w_log[n].drs[j] = nodesMap[m]
    /\ w_pc = "failed" => w_log[Len(w_log)].op = "throw"

\* The root could not be fetched, includeManager was set, and the walk
\* returned the subordinates found under the caller's key.
C29_Witness ==
  /\ RootFetchFailed /\ rootKey = "r" /\ opts.includeManager
  /\ w_pc = "returned" /\ ~truncated
  /\ Len(nodesMap) >= 2
  /\ \A m \in 1..Len(nodesMap) : nodesMap[m].id # "r"


\* ------------------------------------------------------------------------
\* getOrgSubtree: the statistics
\* ------------------------------------------------------------------------
\* stats.enqueued of a returned result (lines 300 and 315): nodesMap.size
StatsEnqueued == Len(nodesMap)

\* C30: in every returned result stats.enqueued is the number of nodes that
\* were put on the traversal queue during the walk (the root counted or
\* not).
C30_EnqueuedCountsQueue ==
  w_pc = "returned" =>
    \/ StatsEnqueued = Len(EnqueuedIds)
    \/ StatsEnqueued = Len(PushedUpTo(Len(w_log)))


\* ------------------------------------------------------------------------
\* getOrgSubtree: the counted calls
\* ------------------------------------------------------------------------
\* The iterations of the walk that invoked getDirectReports.
Invocations == {i \in 1..Len(w_log) : w_log[i].op \in {"expand", "throw"}}

\* C31: in every returned result stats.apiCalls equals stats.expanded and
\* equals the number of getDirectReports invocations the walk made; the
\* lookup of the root is not counted.
C31_OneCallPerExpansion ==
  /\ w_pc = "returned" =>
        /\ apiCalls = expanded
        /\ apiCalls = Cardinality(Invocations)
        /\ apiCalls = Cardinality(Expansions)
  /\ (w_pc = "loop" /\ w_log = <<>>) => apiCalls = 0

\* The root was looked up and found, and the walk returned after three
\* expansions.
C31_Witness ==
  /\ w_pc = "returned" /\ manager # NoEntity
  /\ apiCalls = 3 /\ expanded = 3


\* ------------------------------------------------------------------------
\* getOrgSubtree: termination
\* ------------------------------------------------------------------------
NoRepeat(seq) == \A i \in 1..Len(seq) : \A j \in 1..Len(seq) : seq[i] = seq[j] => i = j

\* An identifier is put on the queue only when it enters the node set, so
\* at most once besides the initial root entry.
EnqueuedOnce ==
  w_pc # "idle" =>
    /\ NoRepeat(PushedUpTo(Len(w_log)))
    /\ NoRepeat(IdSeq(nodesMap))
    /\ \A i \in 1..Len(PushedUpTo(Len(w_log))) :
          PushedUpTo(Len(w_log))[i] \in NodeIds(nodesMap)
    /\ Len(w_log) + Len(queue) <= Len(nodesMap) + 1
    /\ apiCalls <= Len(nodesMap) + 1

\* C32: getOrgSubtree terminates on every finite directory, cyclic ones and
\* ones that return an entity under several superiors included, when each
\* getDirectReports call completes: an identifier is enqueued only when it
\* is first inserted into the node set, so at most once besides the initial
\* root entry, and stats.apiCalls <= node count + 1.
C32_WalkTerminates ==
  /\ []EnqueuedOnce
  /\ (w_pc = "loop") ~> (w_pc \in {"returned", "failed"})

\* In a cyclic directory, with the caps left at their defaults, the root was
\* found again as a subordinate, expanded a second time, and the walk
\* returned with one call more than it has nodes.
C32_Witness ==
  /\ w_pc = "returned" /\ ~truncated /\ ~Acyclic(server.par)
  /\ opts.maxDepth = DefaultMaxDepth /\ opts.maxNodes = DefaultMaxNodes
  /\ depthReached < opts.maxDepth
  /\ \E i \in 2..Len(w_log) : w_log[i].op = "expand" /\ w_log[i].id = w_log[1].id
  /\ apiCalls = Len(nodesMap) + 1


\* ------------------------------------------------------------------------
\* getDirectReports: termination
\* ------------------------------------------------------------------------
\* C33: getDirectReports returns or fails whenever each page request
\* completes, also when the next reference of a page points back to a page
\* that was already visited.
C33_DirectReportsTerminates ==
  (p_pc \in {"first", "loop"}) ~> (p_pc \in {"returned", "failed"})


\* ------------------------------------------------------------------------
\* getOrgSubtree: edges and nodes
\* ------------------------------------------------------------------------
\* The node set was seeded with the root.
Seeded == opts.includeManager /\ manager # NoEntity /\ manager.id \notin {"", Absent}
\* How many subordinates of the batch of iteration n the for loop reached.
Reached(n) == IF w_log[n].hit THEN Processed ELSE Len(w_log[n].drs)

\* C34: in every returned result, truncated or not, the personId of every
\* edge is the id of a node, every node but a seeded root is the personId
\* of an edge, and every subordinate the loop reached has its edge, one
\* already in the node set included.
C34_EdgesMatchNodes ==
  w_pc = "returned" =>
    /\ \A i \in 1..Len(edges) : edges[i].personId \in NodeIds(nodesMap)
    /\ \A m \in 1..Len(nodesMap) :
          \/ Seeded /\ m = 1
          \/ \E i \in 1..Len(edges) : edges[i].personId = nodesMap[m].id
    /\ \A n \in Expansions : \A j \in 1..Reached(n) :
          edges[w_log[n].edgesBefore + j] =
            [leaderId |-> w_log[n].drs[j].teamLeaderId, personId |-> w_log[n].drs[j].id]

\* A truncated result with a seeded root in which the root was also returned
\* as a subordinate: it has an edge of its own and no second node.
C34_Witness ==
  /\ w_pc = "returned" /\ truncated /\ Seeded
  /\ \E i \in 1..Len(edges) : edges[i].personId = nodesMap[1].id
  /\ Len(edges) >= Len(nodesMap)


\* ------------------------------------------------------------------------
\* getFields: overlapping refreshes
\* ------------------------------------------------------------------------
\* C35: whatever the interleaving of overlapping getFields calls, the
\* fetchedAt of the cache never moves backwards: the snapshot of a refresh
\* that started later is never overwritten by one that started earlier.
C35_TimestampNeverBack ==
  [][fieldsCache'.fetchedAt >= fieldsCache.fetchedAt]_vars


\* ------------------------------------------------------------------------
\* getFields: a failed schema request
\* ------------------------------------------------------------------------
\* The request of some call settles with a failure in this step.
FailureStep ==
  \E i \in 1..Len(f_calls) :
    /\ f_calls[i].pc = "await" /\ Len(f_calls') = Len(f_calls) /\ f_calls'[i].pc = "failed"
\* The calls that had failed when call j started.
FailedBefore(j) ==
  {i \in 1..(j - 1) : i \notin f_calls[j].doneBefore \cup f_calls[j].inFlight}
\* Call j does not force a refresh and starts within the TTL of the snapshot
\* it finds.
WithinTtl(j) ==
  /\ ~f_calls[j].force /\ f_calls[j].cacheAtStart # NoCache
  /\ f_calls[j].now - f_calls[j].cacheAtStart.fetchedAt < fieldsTtlMs
AfterFailedCall ==
  \A j \in 1..Len(f_calls) :
    (FailedBefore(j) # {} /\ WithinTtl(j)) =>
      /\ ~f_calls[j].requested /\ f_calls[j].pc = "done"
      /\ f_calls[j].result = f_calls[j].cacheAtStart.items
      /\ \E k \in f_calls[j].doneBefore :
            /\ f_calls[k].requested
            /\ f_calls[k].cacheAfter = f_calls[j].cacheAtStart

\* C36: a getFields call whose schema request fails leaves the cache as it
\* was, snapshot and timestamp; that call fails, and a later call without
\* forceRefresh within the TTL returns the previous snapshot without a
\* request.
C36_FailureKeepsCache ==
  /\ [][FailureStep => fieldsCache' = fieldsCache]_vars
  /\ []AfterFailedCall

\* The first call fetched a schema, the second forced a refresh and failed,
\* the third started after that and returned the schema of the first
\* without a request.
C36_Witness ==
  /\ Len(f_calls) = 3
  /\ f_calls[1].pc = "done" /\ f_calls[1].requested /\ f_calls[1].result \in Schemas
  /\ f_calls[2].pc = "failed" /\ f_calls[2].force /\ 1 \in f_calls[2].doneBefore
  /\ FailedBefore(3) = {2} /\ WithinTtl(3)
  /\ ~f_calls[3].requested /\ f_calls[3].result = f_calls[1].result
  /\ fieldsCache = f_calls[1].cacheAfter


\* ------------------------------------------------------------------------
\* getDirectReports: identifiers
\* ------------------------------------------------------------------------
HasId(x) == x.id \notin {"", Absent}

\* C37: every entity getDirectReports returns has a non-empty id: items
\* whose id is missing or empty are dropped by the deduplication, so none is
\* a node or the person of an edge of a subtree.
C37_ReturnedHaveIds ==
  /\ p_pc = "returned" => \A i \in 1..Len(p_return) : HasId(p_return[i])
  /\ \A n \in Expansions : \A j \in 1..Len(w_log[n].drs) : HasId(w_log[n].drs[j])
  /\ \A m \in 1..Len(nodesMap) : HasId(nodesMap[m])
  /\ \A i \in 1..Len(edges) : edges[i].personId \notin {"", Absent}

\* A search of the walk was answered with an item without id among items
\* with one; the walk returned its nodes and edges.
C37_Witness ==
  /\ w_pc = "returned" /\ Len(nodesMap) >= 2 /\ Len(edges) >= 2
  /\ \E n \in Expansions :
        /\ \E j \in 1..Len(w_log[n].answer.items) : ~HasId(w_log[n].answer.items[j])
        /\ Len(w_log[n].drs) >= 2

\* getDirectReports, called directly, received pages holding an item without
\* id and returned the other items.
C37_DirectCase ==
  /\ p_pc = "returned" /\ p_return # <<>>
  /\ \E i \in 1..Len(out) : ~HasId(out[i])


\* ------------------------------------------------------------------------
\* getOrgChain: the reporting path
\* ------------------------------------------------------------------------
\* The distinct ids of the held path and, for one of them, its rank among
\* the first occurrences.
DistinctIds == {HeldPath[i] : i \in 1..Len(HeldPath)}
FirstAt(k) == CHOOSE i \in 1..Len(HeldPath) : HeldPath[i] = k /\ \A j \in 1..(i - 1) : HeldPath[j] # k
Rank(k) == Cardinality({HeldPath[j] : j \in 1..FirstAt(k)})
\* How often getPerson was called with k for a superior.
SuperiorFetches(k) == Cardinality({i \in 2..Len(c_fetches) : c_fetches[i] = k})

\* C38: an absent or non-list reportingPath counts as empty (the chain is
\* empty, or just the entity with includeSelf); when the path repeats an
\* id, each distinct id is fetched exactly once and returned once, at the
\* position of its first occurrence.
C38_PathDefaultedAndDeduped ==
  /\ (c_pc = "returned" /\ c_remote.path \in {NotArray, <<>>}) =>
        /\ c_return = IF includeSelf THEN <<RemoteEntity(c_remote, c_key)>> ELSE <<>>
        /\ c_fetches = <<c_key>>
  /\ c_pc \in {"leaders", "returned"} =>
        /\ Len(unique) = Cardinality(DistinctIds)
        /\ \A k \in DistinctIds :
              /\ unique[Rank(k)] = k
              /\ SuperiorFetches(k) = IF k = "" THEN 0 ELSE 1
        /\ Len(c_fetches) <= 1 + Cardinality(DistinctIds)
  /\ c_pc = "returned" =>
        /\ Len(ReturnedSuperiors) = Cardinality(DistinctIds)
        /\ \A k \in DistinctIds : ReturnedSuperiors[Rank(k)] = Held(k)

\* The path l1, l2, l1 gave one fetch of l1, one of l2 and the chain l1, l2
\* followed by the entity.
C38_Witness ==
  /\ c_pc = "returned" /\ includeSelf
  /\ c_remote.path = <<"l1", "l2", "l1">>
  /\ c_fetches = <<"p", "l1", "l2">>
  /\ c_return = <<RemoteEntity(c_remote, "l1"), RemoteEntity(c_remote, "l2"),
                  RemoteEntity(c_remote, "p")>>

\* The service holds no reportingPath for the entity; the chain with
\* includeSelf is the entity alone.
C38_AbsentCase ==
  /\ c_pc = "returned" /\ includeSelf /\ c_remote.path = NotArray
  /\ Len(c_return) = 1


\* ------------------------------------------------------------------------
\* Transport: concurrent calls
\* ------------------------------------------------------------------------
\* The signal of the first call, of the second call, becomes aborted in
\* this step.
FirstAborts == ~aborted /\ aborted'
SecondAborts == ~sib.aborted /\ sib'.aborted

\* C39: every requestJsonByUrl call has its own timer and signal: the
\* signal of a call is aborted by its own armed timer only, the step that
\* aborts it changes nothing of a call in flight at the same time, and a
\* call ends with the abort error only when its own signal was aborted.
C39_OwnTimerAndSignal ==
  /\ [][/\ FirstAborts => (timer /\ sib' = [sib EXCEPT !.concurrent = (sib.pc = "fetch")])
        /\ SecondAborts => (sib.timer /\ UNCHANGED tvars)]_vars
  /\ [](/\ t_thrown = AbortError => aborted
        /\ sib.thrown = AbortError => sib.aborted
        /\ sib.result \in {"json", "empty"} => ~sib.aborted)

\* The second call was awaiting its fetch when the timer of the first call
\* fired; the first call failed with the abort error, the second one went
\* on and returned its JSON.
C39_Witness ==
  /\ aborted /\ t_pc = "done" /\ t_thrown = AbortError
  /\ sib.concurrent /\ ~sib.aborted
  /\ sib.pc = "done" /\ sib.result = "json"

====
